---- MODULE Spec2Model ----
(***************************************************************************)
(* State-machine model of the blog backend: the Post lifecycle and its     *)
(* visibility rule, the Tag links with their usage_count, the Comment and  *)
(* Reply tables with the cascading delete, and the Reaction engine with    *)
(* its denormalised counters.  One action per endpoint handler; a handler  *)
(* that raises HTTPException before its commit leaves the database as it   *)
(* was (the request's session is closed without a commit).                 *)
(***************************************************************************)
EXTENDS Integers, Sequences, FiniteSets, TLC

\* ------------------------------------------------------------------ bounds
\* Rows ever inserted per table (ids are never reused: uuid4 in the source).
MaxPosts == 1
MaxComments == 1
MaxReplies == 1
MaxTags == 1
\* Longest tag_ids list a request body carries.
MaxTagIds == 2
\* Posts and tags ever inserted in the tag-link specification.
MaxTaggedPosts == 2
MaxLinkedTags == 2
\* Posts ever inserted in the usage-count specification.
MaxUsagePosts == 3
\* Posts, comments and replies of the discussion specifications.
MaxThreadPosts == 2
MaxThreadComments == 2
MaxThreadReplies == 2
\* Bounds of the reaction specifications.
MaxReactions == 2
\* Requests ever received by a specification of concurrent requests.
MaxRequests == 2

\* --------------------------------------------------------------- constants
HTTP_200_OK == 200
HTTP_201_CREATED == 201
HTTP_204_NO_CONTENT == 204
HTTP_400_BAD_REQUEST == 400
HTTP_401_UNAUTHORIZED == 401
HTTP_403_FORBIDDEN == 403
HTTP_404_NOT_FOUND == 404

None == "None"
Users == {"u1", "u2"}
Viewers == Users \cup {None}

DRAFT == "DRAFT"
ACTIVE == "ACTIVE"
MODIFYING == "MODIFYING"
ARCHIVED == "ARCHIVED"
PostStatus == {DRAFT, ACTIVE, MODIFYING, ARCHIVED}
CommentStatus == {DRAFT, ACTIVE, ARCHIVED}
ReplyStatus == {DRAFT, ACTIVE, ARCHIVED}
TagStatus == {ACTIVE, ARCHIVED}

LIKE == "LIKE"
DISLIKE == "DISLIKE"
ReactionType == {LIKE, DISLIKE}
POST == "post"
COMMENT == "comment"
REPLY == "reply"
TargetType == {POST, COMMENT, REPLY}

\* Request-body values.
Titles == {"t1", "t2"}
Contents == {"c1", "c2"}
TagNames == {"n1", "n2"}
Descriptions == {"d1"}

\* ------------------------------------------------------------------- state
VARIABLES
    posts,      \* id -> Post row
    comments,   \* id -> Comment row
    replies,    \* id -> Reply row
    tags,       \* id -> Tag row
    post_tags,  \* set of PostTag rows [post_id, tag_id]
    reactions,  \* id -> Reaction row
    next_id,    \* per table, the next fresh id; the next request number
    last,       \* the last request and its response
    requests,   \* requests in flight between two commits of their handler
    base,       \* history: the reaction state before a create_reaction that created
    usage_base  \* history: a tag's usage_count before a run of link calls on it

db == <<posts, comments, replies, tags, post_tags, reactions, next_id>>
vars == <<posts, comments, replies, tags, post_tags, reactions, next_id, last, requests, base,
          usage_base>>

\* -------------------------------------------------------------- table helpers
Insert(table, id, row) == (id :> row) @@ table
Delete(table, ids) == [i \in (DOMAIN table) \ ids |-> table[i]]
Fresh(kind) == next_id[kind]
Advance(kinds) == [k \in DOMAIN next_id |-> IF k \in kinds THEN next_id[k] + 1 ELSE next_id[k]]

Range(s) == {s[i] : i \in DOMAIN s}
\* Lists of at most n elements of S.
ListsUpTo(S, n) == UNION {[1..k -> S] : k \in 0..n}

\* No create_reaction has just created a reaction.
NoBase == [calls |-> 0]
\* No add_tag_to_post or remove_tag_from_post has just been answered.
NoUsage == [tag |-> 0]

\* The response of a handler that commits at most once: its reads, its one
\* commit and its response are one step.
Respond(op, actor, post, code) ==
    /\ last' = [op |-> op, actor |-> actor, post |-> post, code |-> code]
    /\ base' = NoBase
    /\ usage_base' = NoUsage
    /\ UNCHANGED requests
\* raise HTTPException: nothing is committed.
Raise(op, actor, post, code) ==
    /\ Respond(op, actor, post, code)
    /\ UNCHANGED db
\* The response of a read: the row asked for and the ids of the rows returned.
Report(op, actor, post, item, code, result) ==
    /\ last' = [op |-> op, actor |-> actor, post |-> post, code |-> code,
                item |-> item, result |-> result]
    /\ base' = NoBase
    /\ usage_base' = NoUsage
    /\ UNCHANGED <<db, requests>>

\* ------------------------------------------------------------ derived counts
CountReactions(rs, target_type, target_id, type) ==
    Cardinality({r \in DOMAIN rs : /\ rs[r].target_id = target_id
                                   /\ rs[r].target_type = target_type
                                   /\ rs[r].type = type})
CountActiveComments(cs, post_id) ==
    Cardinality({c \in DOMAIN cs : cs[c].post_id = post_id /\ cs[c].status = ACTIVE})
\* get_post and update_post store the recomputed counts on the row.
Recount(row, post_id) ==
    [row EXCEPT !.likes_count = CountReactions(reactions, POST, post_id, LIKE),
                !.dislikes_count = CountReactions(reactions, POST, post_id, DISLIKE),
                !.comments_count = CountActiveComments(comments, post_id)]

\* A faulty ActiveTagsIn: the status filter is missing.
TagsOfAnyStatusIn(tag_ids) == {t \in DOMAIN tags : t \in Range(tag_ids)}

\* The rows Tag.id.in_(tag_ids), Tag.status == ACTIVE selects.
ActiveTagsIn(tag_ids) ==
    {t \in DOMAIN tags : t \in Range(tag_ids) /\ tags[t].status = ACTIVE}
\* A faulty TagsMissing: the length comparison is skipped.
TagsMissingIgnored(tag_ids) == FALSE

\* len(tags) != len(tag_ids)
TagsMissing(tag_ids) == Cardinality(ActiveTagsIn(tag_ids)) # Len(tag_ids)
LinkedTags(post_id) ==
    {t \in DOMAIN tags : [post_id |-> post_id, tag_id |-> t] \in post_tags}
LinksOf(post_id) == {l \in post_tags : l.post_id = post_id}

\* The empty database of a fresh deployment.
InitDb ==
    /\ posts = <<>>
    /\ comments = <<>>
    /\ replies = <<>>
    /\ tags = <<>>
    /\ post_tags = {}
    /\ reactions = <<>>
    /\ next_id = [post |-> 1, comment |-> 1, reply |-> 1, tag |-> 1, reaction |-> 1,
                  request |-> 1]
    /\ last = [op |-> "init", actor |-> None, post |-> 0, code |-> 0]
    /\ base = NoBase
    /\ usage_base = NoUsage

Init ==
    /\ InitDb
    /\ requests = <<>>

\* ------------------------------------------------------------------- posts
\* tag_ids None and [] take the same branch (if post.tag_ids), so the body's
\* absent list is the empty list here.
create_post(u, title, content, tag_ids) ==
    LET id == Fresh("post")
        tids == tag_ids
    IN  IF Len(tids) > 0 /\ TagsMissing(tids)
        THEN Raise("create_post", u, 0, HTTP_404_NOT_FOUND)
        ELSE /\ posts' = Insert(posts, id,
                    [author_id |-> u, title |-> title, content |-> content,
                     status |-> DRAFT, likes_count |-> 0, dislikes_count |-> 0,
                     comments_count |-> 0])
             /\ post_tags' = post_tags \cup
                    {[post_id |-> id, tag_id |-> t] : t \in Range(tids)}
             /\ tags' = [t \in DOMAIN tags |->
                    IF t \in Range(tids)
                    THEN [tags[t] EXCEPT !.usage_count = @ + 1] ELSE tags[t]]
             /\ next_id' = Advance({"post"})
             /\ UNCHANGED <<comments, replies, reactions>>
             /\ Respond("create_post", u, id, HTTP_201_CREATED)

\* A faulty DraftDenied: any authenticated viewer may read a draft.
DraftDeniedAnyUser(viewer, post) ==
    IF post.status = DRAFT /\ viewer = None THEN HTTP_401_UNAUTHORIZED ELSE 0

\* Draft posts are visible to their author only: 0 when the viewer may read
\* the post, else the status code raised.
DraftDenied(viewer, post) ==
    IF post.status = DRAFT
    THEN IF viewer = None THEN HTTP_401_UNAUTHORIZED
         ELSE IF viewer # post.author_id THEN HTTP_403_FORBIDDEN
         ELSE 0
    ELSE 0

get_post(viewer, p) ==
    IF p \notin DOMAIN posts
    THEN Raise("get_post", viewer, p, HTTP_404_NOT_FOUND)
    ELSE IF DraftDenied(viewer, posts[p]) # 0
    THEN Raise("get_post", viewer, p, DraftDenied(viewer, posts[p]))
    ELSE /\ posts' = [posts EXCEPT ![p] = Recount(@, p)]
         /\ UNCHANGED <<comments, replies, tags, post_tags, reactions, next_id>>
         /\ Respond("get_post", viewer, p, HTTP_200_OK)

\* A faulty PublicStatus: DRAFT posts are shown to everyone.
PublicStatusWithDraft == {DRAFT, ACTIVE, ARCHIVED}

\* [PostStatus.ACTIVE, PostStatus.ARCHIVED]
PublicStatus == {ACTIVE, ARCHIVED}

\* The rows list_posts selects; status and author_id are None when not given.
ListedPosts(viewer, status, author_id) ==
    IF author_id # None
    THEN IF author_id = viewer
         THEN {p \in DOMAIN posts : /\ posts[p].author_id = author_id
                                    /\ (status # None => posts[p].status = status)}
         ELSE {p \in DOMAIN posts : /\ posts[p].author_id = author_id
                                    /\ posts[p].status \in PublicStatus
                                    /\ (status # None /\ status \in PublicStatus
                                            => posts[p].status = status)}
    ELSE {p \in DOMAIN posts : /\ (posts[p].author_id = viewer
                                      \/ posts[p].status \in PublicStatus)
                               /\ (status # None => posts[p].status = status)}

list_posts(viewer, status, author_id) ==
    Report("list_posts", viewer, 0, 0, HTTP_200_OK, ListedPosts(viewer, status, author_id))

\* A faulty NotAuthor: the ownership check is skipped.
NotAuthorSkipped(u, post) == FALSE

\* post.author_id != current_user.id
NotAuthor(u, post) == post.author_id # u

\* A faulty UpdatableStatus: ACTIVE posts are editable too.
UpdatableStatusWithActive == {MODIFYING, DRAFT, ACTIVE}

UpdatableStatus == {MODIFYING, DRAFT}

\* A faulty RetaggedUsage: every tag of tag_ids is counted again, linked
\* before or not.
RetaggedUsageCountsAll(current, tag_ids) ==
    [t \in DOMAIN tags |->
        IF t \in current /\ t \notin Range(tag_ids) /\ tags[t].usage_count > 0
        THEN [tags[t] EXCEPT !.usage_count = @ - 1]
        ELSE IF t \in Range(tag_ids)
        THEN [tags[t] EXCEPT !.usage_count = @ + 1]
        ELSE tags[t]]

\* The usage_count bookkeeping of update_post's tag replacement.
RetaggedUsage(current, tag_ids) ==
    [t \in DOMAIN tags |->
        IF t \in current /\ t \notin Range(tag_ids) /\ tags[t].usage_count > 0
        THEN [tags[t] EXCEPT !.usage_count = @ - 1]
        ELSE IF t \in Range(tag_ids) /\ t \notin current
        THEN [tags[t] EXCEPT !.usage_count = @ + 1]
        ELSE tags[t]]

\* update_post commits twice.  The request numbered s runs to its first
\* commit: the edited fields and the new tag links are committed while the
\* post still stores its old counts.  given: post_update.tag_ids is not None.
update_post(s, u, p, title, content, status, given, tag_ids) ==
    IF p \notin DOMAIN posts
    THEN Raise("update_post", u, p, HTTP_404_NOT_FOUND)
    ELSE IF NotAuthor(u, posts[p])
    THEN Raise("update_post", u, p, HTTP_403_FORBIDDEN)
    ELSE IF posts[p].status \notin UpdatableStatus
    THEN Raise("update_post", u, p, HTTP_400_BAD_REQUEST)
    ELSE IF given /\ TagsMissing(tag_ids)
    THEN Raise("update_post", u, p, HTTP_404_NOT_FOUND)
    ELSE /\ s \notin DOMAIN requests
         /\ posts' = [posts EXCEPT
                 ![p].title = IF title # None THEN title ELSE @,
                 ![p].content = IF content # None THEN content ELSE @,
                 ![p].status = IF status # None THEN status ELSE @]
         /\ IF given
            THEN /\ post_tags' = (post_tags \ LinksOf(p)) \cup
                        {[post_id |-> p, tag_id |-> t] : t \in Range(tag_ids)}
                 /\ tags' = RetaggedUsage(LinkedTags(p), tag_ids)
            ELSE UNCHANGED <<post_tags, tags>>
         /\ requests' = Insert(requests, s, [pc |-> "edited", user |-> u, post |-> p])
         /\ usage_base' = NoUsage
         /\ UNCHANGED <<comments, replies, reactions, next_id, last, base>>

\* The rest of update_post: the counts are computed from the tables as they
\* are now and written by the second commit, and the response is sent.  The
\* UPDATE of a post another request deleted raises StaleDataError (status 500).
recount_post(s) ==
    LET q == requests[s]
    IN  /\ q.pc = "edited"
        /\ requests' = Delete(requests, {s})
        /\ base' = NoBase
        /\ usage_base' = NoUsage
        /\ IF q.post \in DOMAIN posts
           THEN /\ posts' = [posts EXCEPT ![q.post] = Recount(@, q.post)]
                /\ last' = [op |-> "update_post", actor |-> q.user, post |-> q.post,
                            code |-> HTTP_200_OK]
           ELSE /\ UNCHANGED posts
                /\ last' = [op |-> "update_post", actor |-> q.user, post |-> q.post,
                            code |-> 500]
        /\ UNCHANGED <<comments, replies, tags, post_tags, reactions, next_id>>

\* The status check of activate_post is commented out in the source.
ActivateBlocked(status) == FALSE
ModifyBlocked(status) == status = ARCHIVED

SetStatus(op, u, p, blocked, status) ==
    IF p \notin DOMAIN posts
    THEN Raise(op, u, p, HTTP_404_NOT_FOUND)
    ELSE IF NotAuthor(u, posts[p])
    THEN Raise(op, u, p, HTTP_403_FORBIDDEN)
    ELSE IF blocked
    THEN Raise(op, u, p, HTTP_400_BAD_REQUEST)
    ELSE /\ posts' = [posts EXCEPT ![p].status = status]
         /\ UNCHANGED <<comments, replies, tags, post_tags, reactions, next_id>>
         /\ Respond(op, u, p, HTTP_200_OK)

activate_post(u, p) ==
    SetStatus("activate_post", u, p,
              p \in DOMAIN posts /\ ActivateBlocked(posts[p].status), ACTIVE)
modify_post(u, p) ==
    SetStatus("modify_post", u, p,
              p \in DOMAIN posts /\ ModifyBlocked(posts[p].status), MODIFYING)
archive_post(u, p) ==
    SetStatus("archive_post", u, p, FALSE, ARCHIVED)

CommentsOf(post_id) == {c \in DOMAIN comments : comments[c].post_id = post_id}

\* A faulty RepliesOf: only the ACTIVE replies are selected.
ActiveRepliesOf(comment_ids) ==
    {r \in DOMAIN replies : replies[r].comment_id \in comment_ids /\ replies[r].status = ACTIVE}

\* Reply.comment_id.in_(comment_ids)
RepliesOf(comment_ids) == {r \in DOMAIN replies : replies[r].comment_id \in comment_ids}

delete_post(u, p) ==
    IF p \notin DOMAIN posts
    THEN Raise("delete_post", u, p, HTTP_404_NOT_FOUND)
    ELSE IF NotAuthor(u, posts[p])
    THEN Raise("delete_post", u, p, HTTP_403_FORBIDDEN)
    ELSE /\ replies' = Delete(replies, RepliesOf(CommentsOf(p)))
         /\ comments' = Delete(comments, CommentsOf(p))
         /\ post_tags' = post_tags \ LinksOf(p)
         /\ posts' = Delete(posts, {p})
         /\ UNCHANGED <<tags, reactions, next_id>>
         /\ Respond("delete_post", u, p, HTTP_204_NO_CONTENT)

\* ---------------------------------------------------------------- comments
\* A faulty PostClosed: a DRAFT post takes comments too.
PostClosedUnlessDraft(post) == post.status \notin {ACTIVE, DRAFT}

\* post.status != PostStatus.ACTIVE
PostClosed(post) == post.status # ACTIVE

create_comment(u, p, content) ==
    IF p \notin DOMAIN posts
    THEN Raise("create_comment", u, p, HTTP_404_NOT_FOUND)
    ELSE IF PostClosed(posts[p])
    THEN Raise("create_comment", u, p, HTTP_403_FORBIDDEN)
    ELSE /\ comments' = Insert(comments, Fresh("comment"),
                [post_id |-> p, author_id |-> u, content |-> content,
                 status |-> ACTIVE, likes_count |-> 0, dislikes_count |-> 0])
         /\ posts' = [posts EXCEPT ![p].comments_count = @ + 1]
         /\ next_id' = Advance({"comment"})
         /\ UNCHANGED <<replies, tags, post_tags, reactions>>
         /\ Respond("create_comment", u, p, HTTP_201_CREATED)

get_comment(p, c) ==
    IF p \notin DOMAIN posts
    THEN Raise("get_comment", None, p, HTTP_404_NOT_FOUND)
    ELSE IF posts[p].status # ACTIVE
    THEN Raise("get_comment", None, p, HTTP_403_FORBIDDEN)
    ELSE IF c \notin DOMAIN comments
    THEN Raise("get_comment", None, p, HTTP_404_NOT_FOUND)
    ELSE IF comments[c].post_id # p
    THEN Raise("get_comment", None, p, HTTP_404_NOT_FOUND)
    ELSE IF comments[c].status # ACTIVE
    THEN Raise("get_comment", None, p, HTTP_403_FORBIDDEN)
    ELSE Raise("get_comment", None, p, HTTP_200_OK)

archive_comment(u, p, c) ==
    IF c \notin DOMAIN comments
    THEN Raise("archive_comment", u, p, HTTP_404_NOT_FOUND)
    ELSE IF comments[c].post_id # p
    THEN Raise("archive_comment", u, p, HTTP_404_NOT_FOUND)
    ELSE IF comments[c].author_id # u
    THEN Raise("archive_comment", u, p, HTTP_403_FORBIDDEN)
    ELSE IF posts[comments[c].post_id].status # ACTIVE
    THEN Raise("archive_comment", u, p, HTTP_403_FORBIDDEN)
    ELSE IF comments[c].status # ACTIVE
    THEN Raise("archive_comment", u, p, HTTP_403_FORBIDDEN)
    ELSE /\ comments' = [comments EXCEPT ![c].status = ARCHIVED]
         /\ UNCHANGED <<posts, replies, tags, post_tags, reactions, next_id>>
         /\ Respond("archive_comment", u, p, HTTP_200_OK)

\* A faulty CommentWriteDenied: the comment's post is not compared with the
\* post of the path.
CommentWriteDeniedAnyPost(u, p, c) ==
    IF c \notin DOMAIN comments THEN HTTP_404_NOT_FOUND
    ELSE IF comments[c].author_id # u THEN HTTP_403_FORBIDDEN
    ELSE IF posts[comments[c].post_id].status # ACTIVE THEN HTTP_403_FORBIDDEN
    ELSE 0

\* A faulty CommentWriteDenied: the post's status is not looked at.
CommentWriteDeniedAnyPostStatus(u, p, c) ==
    IF c \notin DOMAIN comments THEN HTTP_404_NOT_FOUND
    ELSE IF comments[c].post_id # p THEN HTTP_404_NOT_FOUND
    ELSE IF comments[c].author_id # u THEN HTTP_403_FORBIDDEN
    ELSE 0

\* The checks update_comment, delete_comment and activate_comment share: 0
\* when they pass, else the status code raised.
CommentWriteDenied(u, p, c) ==
    IF c \notin DOMAIN comments THEN HTTP_404_NOT_FOUND
    ELSE IF comments[c].post_id # p THEN HTTP_404_NOT_FOUND
    ELSE IF comments[c].author_id # u THEN HTTP_403_FORBIDDEN
    ELSE IF posts[comments[c].post_id].status # ACTIVE THEN HTTP_403_FORBIDDEN
    ELSE 0

\* activate_comment does not look at the comment's own status.
activate_comment(u, p, c) ==
    IF CommentWriteDenied(u, p, c) # 0
    THEN Raise("activate_comment", u, p, CommentWriteDenied(u, p, c))
    ELSE /\ comments' = [comments EXCEPT ![c].status = ACTIVE]
         /\ UNCHANGED <<posts, replies, tags, post_tags, reactions, next_id>>
         /\ Respond("activate_comment", u, p, HTTP_200_OK)

\* delete_comment is a hard delete of the comment and of its replies.
delete_comment(u, p, c) ==
    IF CommentWriteDenied(u, p, c) # 0
    THEN Raise("delete_comment", u, p, CommentWriteDenied(u, p, c))
    ELSE IF comments[c].status # ACTIVE
    THEN Raise("delete_comment", u, p, HTTP_403_FORBIDDEN)
    ELSE /\ replies' = Delete(replies, RepliesOf({c}))
         /\ comments' = Delete(comments, {c})
         /\ posts' = [posts EXCEPT ![p].comments_count = @ - 1]
         /\ UNCHANGED <<tags, post_tags, reactions, next_id>>
         /\ Respond("delete_comment", u, p, HTTP_204_NO_CONTENT)

\* A faulty ActiveCommentsOf: the status filter is missing.
CommentsOfAnyStatus(post_id) == CommentsOf(post_id)

\* Comment.post_id == post_id, Comment.status == ACTIVE
ActiveCommentsOf(post_id) == {c \in CommentsOf(post_id) : comments[c].status = ACTIVE}

list_comments(p) ==
    IF p \notin DOMAIN posts
    THEN Report("list_comments", None, p, 0, HTTP_404_NOT_FOUND, {})
    ELSE IF posts[p].status # ACTIVE
    THEN Report("list_comments", None, p, 0, HTTP_403_FORBIDDEN, {})
    ELSE Report("list_comments", None, p, 0, HTTP_200_OK, ActiveCommentsOf(p))

update_comment(u, p, c, content) ==
    IF CommentWriteDenied(u, p, c) # 0
    THEN Raise("update_comment", u, p, CommentWriteDenied(u, p, c))
    ELSE IF comments[c].status # ACTIVE
    THEN Raise("update_comment", u, p, HTTP_403_FORBIDDEN)
    ELSE /\ comments' = [comments EXCEPT ![c].content = content]
         /\ UNCHANGED <<posts, replies, tags, post_tags, reactions, next_id>>
         /\ Respond("update_comment", u, p, HTTP_200_OK)

\* ----------------------------------------------------------------- replies
\* Reply.updated_at: "inserted" is the time of the INSERT, "updated" a later
\* time. onupdate stamps the row whenever an UPDATE changes one of its columns.
Stamp(old, new) == IF new = old THEN old ELSE [new EXCEPT !.updated_at = "updated"]

\* A faulty ReplyPathDenied: the comment's status is not looked at.
ReplyPathDeniedAnyComment(p, c) ==
    IF p \notin DOMAIN posts THEN HTTP_404_NOT_FOUND
    ELSE IF posts[p].status # ACTIVE THEN HTTP_403_FORBIDDEN
    ELSE IF c \notin DOMAIN comments THEN HTTP_404_NOT_FOUND
    ELSE IF comments[c].post_id # p THEN HTTP_404_NOT_FOUND
    ELSE 0

\* The checks create_reply, list_replies and get_reply make on the path's
\* post and comment: 0 when they pass, else the status code raised.
ReplyPathDenied(p, c) ==
    IF p \notin DOMAIN posts THEN HTTP_404_NOT_FOUND
    ELSE IF posts[p].status # ACTIVE THEN HTTP_403_FORBIDDEN
    ELSE IF c \notin DOMAIN comments THEN HTTP_404_NOT_FOUND
    ELSE IF comments[c].post_id # p THEN HTTP_404_NOT_FOUND
    ELSE IF comments[c].status # ACTIVE THEN HTTP_403_FORBIDDEN
    ELSE 0

create_reply(u, p, c, content) ==
    IF ReplyPathDenied(p, c) # 0
    THEN Raise("create_reply", u, p, ReplyPathDenied(p, c))
    ELSE /\ replies' = Insert(replies, Fresh("reply"),
                [comment_id |-> c, author_id |-> u, content |-> content,
                 status |-> ACTIVE, updated_at |-> "inserted",
                 likes_count |-> 0, dislikes_count |-> 0])
         /\ next_id' = Advance({"reply"})
         /\ UNCHANGED <<posts, comments, tags, post_tags, reactions>>
         /\ Respond("create_reply", u, p, HTTP_201_CREATED)

get_reply(p, c, r) ==
    IF ReplyPathDenied(p, c) # 0
    THEN Raise("get_reply", None, p, ReplyPathDenied(p, c))
    ELSE IF r \notin DOMAIN replies
    THEN Raise("get_reply", None, p, HTTP_404_NOT_FOUND)
    ELSE IF replies[r].comment_id # c
    THEN Raise("get_reply", None, p, HTTP_404_NOT_FOUND)
    ELSE IF replies[r].status # ACTIVE
    THEN Raise("get_reply", None, p, HTTP_403_FORBIDDEN)
    ELSE Raise("get_reply", None, p, HTTP_200_OK)

\* A faulty ReplyWriteDenied: the reply's author is not compared with the
\* caller.
ReplyWriteDeniedAnyAuthor(u, p, c, r) ==
    IF r \notin DOMAIN replies THEN HTTP_404_NOT_FOUND
    ELSE IF replies[r].comment_id # c THEN HTTP_404_NOT_FOUND
    ELSE IF c \notin DOMAIN comments \/ comments[c].post_id # p THEN HTTP_404_NOT_FOUND
    ELSE IF posts[p].status # ACTIVE THEN HTTP_403_FORBIDDEN
    ELSE IF comments[c].status # ACTIVE THEN HTTP_403_FORBIDDEN
    ELSE 0

\* The checks update_reply, delete_reply, activate_reply and archive_reply
\* share, up to the reply's own status: 0 when they pass.
ReplyWriteDenied(u, p, c, r) ==
    IF r \notin DOMAIN replies THEN HTTP_404_NOT_FOUND
    ELSE IF replies[r].comment_id # c THEN HTTP_404_NOT_FOUND
    ELSE IF c \notin DOMAIN comments \/ comments[c].post_id # p THEN HTTP_404_NOT_FOUND
    ELSE IF replies[r].author_id # u THEN HTTP_403_FORBIDDEN
    ELSE IF posts[p].status # ACTIVE THEN HTTP_403_FORBIDDEN
    ELSE IF comments[c].status # ACTIVE THEN HTTP_403_FORBIDDEN
    ELSE 0

\* A faulty ReplyNotActive: the reply's own status is not looked at.
ReplyNotActiveIgnored(reply) == FALSE

\* reply.status != ReplyStatus.ACTIVE
ReplyNotActive(reply) == reply.status # ACTIVE

\* delete_reply is a soft delete: the row stays, ARCHIVED.
delete_reply(u, p, c, r) ==
    IF ReplyWriteDenied(u, p, c, r) # 0
    THEN Raise("delete_reply", u, p, ReplyWriteDenied(u, p, c, r))
    ELSE IF ReplyNotActive(replies[r])
    THEN Raise("delete_reply", u, p, HTTP_403_FORBIDDEN)
    ELSE /\ replies' = [replies EXCEPT ![r] = Stamp(@, [@ EXCEPT !.status = ARCHIVED])]
         /\ UNCHANGED <<posts, comments, tags, post_tags, reactions, next_id>>
         /\ Respond("delete_reply", u, p, HTTP_204_NO_CONTENT)

\* A faulty ActiveRepliesTo: the status filter is missing.
RepliesTo(comment_id) == RepliesOf({comment_id})

\* Reply.comment_id == comment_id, Reply.status == ACTIVE
ActiveRepliesTo(comment_id) ==
    {r \in DOMAIN replies : replies[r].comment_id = comment_id /\ replies[r].status = ACTIVE}

list_replies(p, c) ==
    IF ReplyPathDenied(p, c) # 0
    THEN Report("list_replies", None, p, c, ReplyPathDenied(p, c), {})
    ELSE Report("list_replies", None, p, c, HTTP_200_OK, ActiveRepliesTo(c))

update_reply(u, p, c, r, content) ==
    IF ReplyWriteDenied(u, p, c, r) # 0
    THEN Raise("update_reply", u, p, ReplyWriteDenied(u, p, c, r))
    ELSE IF ReplyNotActive(replies[r])
    THEN Raise("update_reply", u, p, HTTP_403_FORBIDDEN)
    ELSE /\ replies' = [replies EXCEPT ![r] = [@ EXCEPT !.content = content,
                                                      !.updated_at = "updated"]]
         /\ UNCHANGED <<posts, comments, tags, post_tags, reactions, next_id>>
         /\ Respond("update_reply", u, p, HTTP_200_OK)

\* activate_reply does not look at the reply's own status.
activate_reply(u, p, c, r) ==
    IF ReplyWriteDenied(u, p, c, r) # 0
    THEN Raise("activate_reply", u, p, ReplyWriteDenied(u, p, c, r))
    ELSE /\ replies' = [replies EXCEPT ![r] = Stamp(@, [@ EXCEPT !.status = ACTIVE])]
         /\ UNCHANGED <<posts, comments, tags, post_tags, reactions, next_id>>
         /\ Respond("activate_reply", u, p, HTTP_200_OK)

archive_reply(u, p, c, r) ==
    IF ReplyWriteDenied(u, p, c, r) # 0
    THEN Raise("archive_reply", u, p, ReplyWriteDenied(u, p, c, r))
    ELSE IF ReplyNotActive(replies[r])
    THEN Raise("archive_reply", u, p, HTTP_403_FORBIDDEN)
    ELSE /\ replies' = [replies EXCEPT ![r] = Stamp(@, [@ EXCEPT !.status = ARCHIVED])]
         /\ UNCHANGED <<posts, comments, tags, post_tags, reactions, next_id>>
         /\ Respond("archive_reply", u, p, HTTP_200_OK)

\* -------------------------------------------------------------------- tags
\* A faulty NameTaken: only ACTIVE tags hold their names.
NameTakenByActive(name) == \E t \in DOMAIN tags : tags[t].name = name /\ tags[t].status = ACTIVE

\* session.query(Tag).filter(Tag.name == name).first() finds a row.
NameTaken(name) == \E t \in DOMAIN tags : tags[t].name = name

\* A faulty NotCreator: the permission check is skipped.
NotCreatorSkipped(u, tag) == FALSE

\* tag.creator_id != current_user.id
NotCreator(u, tag) == tag.creator_id # u

\* description: None when the body leaves the field out.
create_tag(u, name, description) ==
    IF NameTaken(name)
    THEN Raise("create_tag", u, 0, HTTP_400_BAD_REQUEST)
    ELSE /\ tags' = Insert(tags, Fresh("tag"),
                [name |-> name, description |-> description, creator_id |-> u,
                 status |-> ACTIVE, usage_count |-> 0])
         /\ next_id' = Advance({"tag"})
         /\ UNCHANGED <<posts, comments, replies, post_tags, reactions>>
         /\ Respond("create_tag", u, 0, HTTP_201_CREATED)

\* A faulty ActiveTags: the listing has no status filter.
TagsOfAnyStatus == DOMAIN tags

\* The rows list_tags returns.
ActiveTags == {t \in DOMAIN tags : tags[t].status = ACTIVE}

list_tags ==
    Report("list_tags", None, 0, 0, HTTP_200_OK, ActiveTags)

get_tag(t) ==
    IF t \notin ActiveTags
    THEN Report("get_tag", None, 0, t, HTTP_404_NOT_FOUND, {})
    ELSE Report("get_tag", None, 0, t, HTTP_200_OK, {t})

\* name, description: None when the body leaves the field out.
update_tag(u, t, name, description) ==
    IF t \notin DOMAIN tags
    THEN Raise("update_tag", u, 0, HTTP_404_NOT_FOUND)
    ELSE IF NotCreator(u, tags[t])
    THEN Raise("update_tag", u, 0, HTTP_403_FORBIDDEN)
    ELSE IF name # None /\ name # tags[t].name /\ NameTaken(name)
    THEN Raise("update_tag", u, 0, HTTP_400_BAD_REQUEST)
    ELSE /\ tags' = [tags EXCEPT
                ![t].name = IF name # None THEN name ELSE @,
                ![t].description = IF description # None THEN description ELSE @]
         /\ UNCHANGED <<posts, comments, replies, post_tags, reactions, next_id>>
         /\ Respond("update_tag", u, 0, HTTP_200_OK)

\* delete_tag deletes the tag's PostTag links with the tag.
\* A faulty LinksOfTag: delete_tag finds no link to delete.
LinksOfTagMissed(tag_id) == {}

\* PostTag.tag_id == tag_id
LinksOfTag(tag_id) == {l \in post_tags : l.tag_id = tag_id}

delete_tag(u, t) ==
    IF t \notin DOMAIN tags
    THEN Raise("delete_tag", u, 0, HTTP_404_NOT_FOUND)
    ELSE IF NotCreator(u, tags[t])
    THEN Raise("delete_tag", u, 0, HTTP_403_FORBIDDEN)
    ELSE /\ post_tags' = post_tags \ LinksOfTag(t)
         /\ tags' = Delete(tags, {t})
         /\ UNCHANGED <<posts, comments, replies, reactions, next_id>>
         /\ Respond("delete_tag", u, 0, HTTP_204_NO_CONTENT)

\* The ACTIVE tags linked to a post: the tag list get_post, list_posts,
\* update_post and list_post_tags report.
ReportedTags(post_id) == LinkedTags(post_id) \cap ActiveTags

list_post_tags(viewer, p) ==
    IF p \notin DOMAIN posts
    THEN Report("list_post_tags", viewer, p, 0, HTTP_404_NOT_FOUND, {})
    ELSE IF DraftDenied(viewer, posts[p]) # 0
    THEN Report("list_post_tags", viewer, p, 0, DraftDenied(viewer, posts[p]), {})
    ELSE IF posts[p].status \notin {DRAFT, ACTIVE, ARCHIVED}
    THEN Report("list_post_tags", viewer, p, 0, HTTP_403_FORBIDDEN, {})
    ELSE Report("list_post_tags", viewer, p, 0, HTTP_200_OK, ReportedTags(p))

archive_tag(u, t) ==
    IF t \notin DOMAIN tags
    THEN Raise("archive_tag", u, 0, HTTP_404_NOT_FOUND)
    ELSE IF NotCreator(u, tags[t])
    THEN Raise("archive_tag", u, 0, HTTP_403_FORBIDDEN)
    ELSE /\ tags' = [tags EXCEPT ![t].status = ARCHIVED]
         /\ UNCHANGED <<posts, comments, replies, post_tags, reactions, next_id>>
         /\ Respond("archive_tag", u, 0, HTTP_200_OK)

\* History for a run of add_tag_to_post and remove_tag_from_post calls on one
\* tag with no other request between them: the tag's usage_count before the
\* run, the posts the run linked (each once), the posts it unlinked again and
\* whether it held a removal from a post that had no link.
UsageAdded(p, t) ==
    IF usage_base.tag = t /\ p \notin usage_base.added
    THEN [usage_base EXCEPT !.added = @ \cup {p}]
    ELSE [tag |-> t, usage_count |-> tags[t].usage_count, added |-> {p},
          removed |-> {}, redundant |-> FALSE]
UsageRemoved(p, t) ==
    IF usage_base.tag = t /\ p \in usage_base.added \ usage_base.removed
    THEN [usage_base EXCEPT !.removed = @ \cup {p}]
    ELSE NoUsage
UsageKept(t) ==
    IF usage_base.tag = t
    THEN [usage_base EXCEPT !.redundant = TRUE]
    ELSE NoUsage
\* The response of a link call: the history of the run goes on.
RespondLinked(op, actor, post, code, history) ==
    /\ last' = [op |-> op, actor |-> actor, post |-> post, code |-> code]
    /\ base' = NoBase
    /\ usage_base' = history
    /\ UNCHANGED requests

add_tag_to_post(u, p, t) ==
    IF p \notin DOMAIN posts
    THEN Raise("add_tag_to_post", u, p, HTTP_404_NOT_FOUND)
    ELSE IF NotAuthor(u, posts[p])
    THEN Raise("add_tag_to_post", u, p, HTTP_403_FORBIDDEN)
    ELSE IF t \notin DOMAIN tags \/ tags[t].status # ACTIVE
    THEN Raise("add_tag_to_post", u, p, HTTP_404_NOT_FOUND)
    ELSE IF [post_id |-> p, tag_id |-> t] \in post_tags
    THEN Raise("add_tag_to_post", u, p, HTTP_400_BAD_REQUEST)
    ELSE /\ post_tags' = post_tags \cup {[post_id |-> p, tag_id |-> t]}
         /\ tags' = [tags EXCEPT ![t].usage_count = @ + 1]
         /\ UNCHANGED <<posts, comments, replies, reactions, next_id>>
         /\ RespondLinked("add_tag_to_post", u, p, HTTP_204_NO_CONTENT, UsageAdded(p, t))

\* A faulty LinkDeleted: the decrement does not depend on the deleted rows.
LinkDeletedAlways(p, t) == TRUE

\* result > 0: the DELETE of the link rows of (post_id, tag_id) matched a row.
LinkDeleted(p, t) == [post_id |-> p, tag_id |-> t] \in post_tags

\* usage_count is decremented (and the session committed) only when a link
\* row was deleted.
remove_tag_from_post(u, p, t) ==
    IF p \notin DOMAIN posts
    THEN Raise("remove_tag_from_post", u, p, HTTP_404_NOT_FOUND)
    ELSE IF NotAuthor(u, posts[p])
    THEN Raise("remove_tag_from_post", u, p, HTTP_403_FORBIDDEN)
    ELSE IF t \notin DOMAIN tags
    THEN Raise("remove_tag_from_post", u, p, HTTP_404_NOT_FOUND)
    ELSE IF LinkDeleted(p, t)
    THEN /\ post_tags' = post_tags \ {[post_id |-> p, tag_id |-> t]}
         /\ tags' = [tags EXCEPT ![t].usage_count = @ - 1]
         /\ UNCHANGED <<posts, comments, replies, reactions, next_id>>
         /\ RespondLinked("remove_tag_from_post", u, p, HTTP_204_NO_CONTENT,
                          UsageRemoved(p, t))
    ELSE /\ RespondLinked("remove_tag_from_post", u, p, HTTP_204_NO_CONTENT, UsageKept(t))
         /\ UNCHANGED db

\* --------------------------------------------------------------- reactions
TargetTable(target_type) ==
    CASE target_type = POST -> posts
      [] target_type = COMMENT -> comments
      [] target_type = REPLY -> replies

\* A faulty get_target_object: a target of any status is accepted.
get_target_object_any_status(target_type, target_id) ==
    IF target_id \notin DOMAIN TargetTable(target_type) THEN HTTP_404_NOT_FOUND ELSE 0

\* 0 when the target exists and is ACTIVE, else the status code raised.
get_target_object(target_type, target_id) ==
    LET table == TargetTable(target_type)
    IN  IF target_id \notin DOMAIN table THEN HTTP_404_NOT_FOUND
        ELSE IF table[target_id].status # ACTIVE THEN HTTP_400_BAD_REQUEST
        ELSE 0

\* A faulty ExistingReactions: the lookup never finds the user's row.
ExistingReactionsNeverFound(rs, u, target_type, target_id) == {}

\* The rows the existing_reaction query matches.
ExistingReactions(rs, u, target_type, target_id) ==
    {r \in DOMAIN rs : /\ rs[r].target_type = target_type
                       /\ rs[r].target_id = target_id
                       /\ rs[r].user_id = u}

\* .first(): one of the matching rows, or 0 for None.
FirstOf(matching) == IF matching = {} THEN {0} ELSE matching

\* The branch create_reaction takes on the row it found.
ReactionPath(rs, existing, type) ==
    IF existing = 0 THEN "created"
    ELSE IF rs[existing].type = type THEN "removed"
    ELSE "updated"

\* The Reaction table after the branch's first commit.  A DELETE that matches
\* no row only warns; an UPDATE that matches no row is handled by the caller.
ReactionRows(rs, path, existing, id, u, target_type, target_id, type) ==
    CASE path = "created" ->
            Insert(rs, id, [user_id |-> u, target_id |-> target_id,
                            target_type |-> target_type, type |-> type])
      [] path = "removed" -> Delete(rs, {existing})
      [] path = "updated" ->
            IF existing \in DOMAIN rs THEN [rs EXCEPT ![existing].type = type] ELSE rs

\* A faulty DislikesDelta: a switch leaves dislikes_count alone.
DislikesDeltaNoSwitch(path, type) ==
    CASE path = "created" -> IF type = LIKE THEN 0 ELSE 1
      [] path = "removed" -> IF type = LIKE THEN 0 ELSE -1
      [] path = "updated" -> 0

\* A faulty LikesDelta: removing a LIKE leaves likes_count alone.
LikesDeltaNoDecrement(path, type) ==
    CASE path = "created" -> IF type = LIKE THEN 1 ELSE 0
      [] path = "removed" -> 0
      [] path = "updated" -> IF type = LIKE THEN 1 ELSE -1

\* The change of likes_count and of dislikes_count in each branch.
LikesDelta(path, type) ==
    CASE path = "created" -> IF type = LIKE THEN 1 ELSE 0
      [] path = "removed" -> IF type = LIKE THEN -1 ELSE 0
      [] path = "updated" -> IF type = LIKE THEN 1 ELSE -1
DislikesDelta(path, type) ==
    CASE path = "created" -> IF type = LIKE THEN 0 ELSE 1
      [] path = "removed" -> IF type = LIKE THEN 0 ELSE -1
      [] path = "updated" -> IF type = LIKE THEN -1 ELSE 1

\* The target row after the branch's second commit: the counts loaded after
\* the first commit plus the deltas; a column left alone is not written.
CountedRow(row, seen_likes, seen_dislikes, path, type) ==
    [row EXCEPT
        !.likes_count = IF LikesDelta(path, type) # 0
                        THEN seen_likes + LikesDelta(path, type) ELSE @,
        !.dislikes_count = IF DislikesDelta(path, type) # 0
                           THEN seen_dislikes + DislikesDelta(path, type) ELSE @]

\* The three target tables with one row of one of them replaced.
WriteTarget(target_type, target_id, row) ==
    /\ posts' = IF target_type = POST THEN [posts EXCEPT ![target_id] = row] ELSE posts
    /\ comments' = IF target_type = COMMENT
                   THEN [comments EXCEPT ![target_id] = row] ELSE comments
    /\ replies' = IF target_type = REPLY
                  THEN [replies EXCEPT ![target_id] = Stamp(@, row)] ELSE replies

ReactionCode(path) == IF path = "removed" THEN HTTP_204_NO_CONTENT ELSE HTTP_200_OK

ReactionResponse(u, target_type, target_id, type, code, outcome) ==
    [op |-> "create_reaction", actor |-> u, post |-> 0, code |-> code,
     target_type |-> target_type, target_id |-> target_id, type |-> type,
     outcome |-> outcome]

\* History for two calls in a row: the reaction state before a call that
\* created, kept over the next call when that call repeats the request
\* (calls = 2) or asks for the other type (calls = 0, switched = that type).
NextBase(path, u, target_type, target_id, type) ==
    IF path = "created"
    THEN [calls |-> 1, actor |-> u, target_type |-> target_type,
          target_id |-> target_id, type |-> type, reactions |-> reactions,
          likes_count |-> TargetTable(target_type)[target_id].likes_count,
          dislikes_count |-> TargetTable(target_type)[target_id].dislikes_count,
          switched |-> None]
    ELSE IF /\ base.calls = 1
            /\ base.actor = u /\ base.target_type = target_type
            /\ base.target_id = target_id
    THEN IF base.type = type
         THEN [base EXCEPT !.calls = 2]
         ELSE [base EXCEPT !.calls = 0, !.switched = type]
    ELSE NoBase

\* ------------------------------------------- create_reaction, step by step
\* Handlers run in a thread pool, each on its own session, and create_reaction
\* commits twice: a request is at "found" (target and existing reaction read),
\* "committed" (Reaction row committed), "typed" (created path: the Reaction
\* row read again), "loaded" (the target read again) or "counted" (counts
\* committed, response not yet built).  Requests that run one after another take the same
\* steps with no other request between them.

\* The request numbered s arrives: the target is checked and the existing
\* reaction looked up.
create_reaction(s, u, target_type, target_id, type) ==
    /\ s \notin DOMAIN requests
    /\ next_id' = [next_id EXCEPT !["request"] = IF s >= @ THEN s + 1 ELSE @]
    /\ IF get_target_object(target_type, target_id) # 0
       THEN /\ last' = ReactionResponse(u, target_type, target_id, type,
                           get_target_object(target_type, target_id), "failed")
            /\ base' = NoBase
            /\ UNCHANGED requests
       ELSE \E existing \in FirstOf(ExistingReactions(reactions, u, target_type, target_id)) :
            LET path == ReactionPath(reactions, existing, type)
            IN  /\ requests' = Insert(requests, s,
                        [pc |-> "found", user |-> u, target_type |-> target_type,
                         target_id |-> target_id, type |-> type, existing |-> existing,
                         path |-> path, row |-> existing, counted |-> type,
                         likes_count |-> 0, dislikes_count |-> 0])
                /\ base' = NextBase(path, u, target_type, target_id, type)
                /\ UNCHANGED last
    /\ usage_base' = NoUsage
    /\ UNCHANGED <<posts, comments, replies, tags, post_tags, reactions>>

\* First commit: the Reaction row is inserted, deleted or retyped.  An UPDATE
\* of a row another request deleted raises StaleDataError: the request ends
\* with status 500 and nothing committed.
commit_reaction(s) ==
    LET q == requests[s]
    IN  /\ q.pc = "found"
        /\ IF q.path = "updated" /\ q.existing \notin DOMAIN reactions
           THEN /\ last' = ReactionResponse(q.user, q.target_type, q.target_id, q.type,
                                            500, "failed")
                /\ requests' = Delete(requests, {s})
                /\ UNCHANGED db
           ELSE /\ reactions' = ReactionRows(reactions, q.path, q.existing,
                        Fresh("reaction"), q.user, q.target_type, q.target_id, q.type)
                /\ next_id' = IF q.path = "created"
                              THEN Advance({"reaction"}) ELSE next_id
                /\ requests' = [requests EXCEPT ![s] =
                        [q EXCEPT !.pc = "committed",
                                  !.row = IF q.path = "created"
                                          THEN Fresh("reaction") ELSE @]]
                /\ UNCHANGED <<posts, comments, replies, tags, post_tags, last>>
        /\ UNCHANGED <<base, usage_base>>

\* On the created path, reaction.type reads the expired Reaction row again: a
\* row another request deleted raises ObjectDeletedError (status 500, no
\* count written), a row another request retyped is counted under the type
\* it has now.
load_reaction(s) ==
    LET q == requests[s]
    IN  /\ q.pc = "committed" /\ q.path = "created"
        /\ IF q.row \notin DOMAIN reactions
           THEN /\ last' = ReactionResponse(q.user, q.target_type, q.target_id, q.type,
                                            500, "failed")
                /\ requests' = Delete(requests, {s})
           ELSE /\ requests' = [requests EXCEPT ![s] =
                        [q EXCEPT !.pc = "typed", !.counted = reactions[q.row].type]]
                /\ UNCHANGED last
        /\ UNCHANGED <<db, base, usage_base>>

\* target.likes_count += 1 reads the expired target again.
load_target(s) ==
    LET q == requests[s]
        row == TargetTable(q.target_type)[q.target_id]
    IN  /\ \/ q.pc = "typed"
           \/ q.pc = "committed" /\ q.path # "created"
        /\ requests' = [requests EXCEPT ![s] =
                [q EXCEPT !.pc = "loaded", !.likes_count = row.likes_count,
                          !.dislikes_count = row.dislikes_count]]
        /\ UNCHANGED <<db, last, base, usage_base>>

\* Second commit: the counts are written.  The removed path then raises its
\* 204; the other paths return the Reaction row.
commit_counts(s) ==
    LET q == requests[s]
        row == TargetTable(q.target_type)[q.target_id]
    IN  /\ q.pc = "loaded"
        /\ WriteTarget(q.target_type, q.target_id,
                CountedRow(row, q.likes_count, q.dislikes_count, q.path, q.counted))
        /\ IF q.path = "removed"
           THEN /\ requests' = Delete(requests, {s})
                /\ last' = ReactionResponse(q.user, q.target_type, q.target_id, q.type,
                                            ReactionCode(q.path), q.path)
           ELSE /\ requests' = [requests EXCEPT ![s].pc = "counted"]
                /\ UNCHANGED last
        /\ UNCHANGED <<reactions, tags, post_tags, next_id, base, usage_base>>

\* The response of the created and the updated path is built from the
\* returned Reaction row, which the second commit expired: it is read once
\* more, and a row another request deleted raises ObjectDeletedError (status
\* 500) with the counts already committed.
return_reaction(s) ==
    LET q == requests[s]
    IN  /\ q.pc = "counted"
        /\ requests' = Delete(requests, {s})
        /\ last' = IF q.row \notin DOMAIN reactions
                   THEN ReactionResponse(q.user, q.target_type, q.target_id, q.type,
                                         500, "failed")
                   ELSE ReactionResponse(q.user, q.target_type, q.target_id, q.type,
                                         ReactionCode(q.path), q.path)
        /\ UNCHANGED <<db, base, usage_base>>

\* The worker dies: what it committed stays, the rest is rolled back.
crash(s) ==
    /\ requests' = Delete(requests, {s})
    /\ UNCHANGED <<db, last, base, usage_base>>

\* -------------------------------------------------------------------- spec
PostIds == 1..MaxPosts
CommentIds == 1..MaxComments
ReplyIds == 1..MaxReplies
TagIds == 1..MaxTags
TagIdLists == ListsUpTo(TagIds, MaxTagIds)

\* Posts and tags: the post lifecycle with every request body.  A request is
\* sent when the one before has been answered (requests = <<>>).
Next ==
    \/ /\ requests = <<>>
       /\ \/ \E u \in Users, t \in Titles, c \in Contents, ids \in TagIdLists :
               Fresh("post") <= MaxPosts /\ create_post(u, t, c, ids)
          \/ \E v \in Viewers, p \in PostIds : get_post(v, p)
          \/ \E u \in Users, p \in PostIds, t \in {None} \cup Titles, c \in {None} \cup Contents,
                s \in {None} \cup PostStatus, given \in BOOLEAN, ids \in TagIdLists :
               (given \/ ids = <<>>) /\ update_post(1, u, p, t, c, s, given, ids)
          \/ \E u \in Users, p \in PostIds : activate_post(u, p)
          \/ \E u \in Users, p \in PostIds : modify_post(u, p)
          \/ \E u \in Users, p \in PostIds : archive_post(u, p)
          \/ \E u \in Users, p \in PostIds : delete_post(u, p)
          \/ \E u \in Users, n \in TagNames :
               Fresh("tag") <= MaxTags /\ create_tag(u, n, None)
          \/ \E u \in Users, t \in TagIds : archive_tag(u, t)
          \/ \E u \in Users, p \in PostIds, t \in TagIds : add_tag_to_post(u, p, t)
          \/ \E u \in Users, p \in PostIds, t \in TagIds : remove_tag_from_post(u, p, t)
    \/ \E s \in DOMAIN requests : recount_post(s)

Spec == Init /\ [][Next]_vars

\* The discussion tree: a post with its comments, replies and tag links.
\* Request bodies are fixed where the handlers do not branch on them.
NextTree ==
    \/ /\ requests = <<>>
       /\ \/ \E u \in Users, ids \in TagIdLists :
               Fresh("post") <= MaxPosts /\ create_post(u, "t1", "c1", ids)
          \/ \E v \in Viewers, p \in PostIds : get_post(v, p)
          \/ \E u \in Users, p \in PostIds, t \in {None, "t2"}, given \in BOOLEAN :
               update_post(1, u, p, t, None, None, given, <<>>)
          \/ \E u \in Users, p \in PostIds : activate_post(u, p)
          \/ \E u \in Users, p \in PostIds : modify_post(u, p)
          \/ \E u \in Users, p \in PostIds : archive_post(u, p)
          \/ \E u \in Users, p \in PostIds : delete_post(u, p)
          \/ \E u \in Users, p \in PostIds :
               Fresh("comment") <= MaxComments /\ create_comment(u, p, "c1")
          \/ \E p \in PostIds, c \in CommentIds : get_comment(p, c)
          \/ \E u \in Users, p \in PostIds, c \in CommentIds : archive_comment(u, p, c)
          \/ \E u \in Users, p \in PostIds, c \in CommentIds : activate_comment(u, p, c)
          \/ \E u \in Users, p \in PostIds, c \in CommentIds : delete_comment(u, p, c)
          \/ \E u \in Users, p \in PostIds, c \in CommentIds :
               Fresh("reply") <= MaxReplies /\ create_reply(u, p, c, "c1")
          \/ \E p \in PostIds, c \in CommentIds, r \in ReplyIds : get_reply(p, c, r)
          \/ \E u \in Users, p \in PostIds, c \in CommentIds, r \in ReplyIds :
               delete_reply(u, p, c, r)
          \/ \E u \in Users : Fresh("tag") <= MaxTags /\ create_tag(u, "n1", None)
          \/ \E u \in Users, p \in PostIds, t \in TagIds : add_tag_to_post(u, p, t)
          \/ \E u \in Users, p \in PostIds, t \in TagIds : remove_tag_from_post(u, p, t)
    \/ \E s \in DOMAIN requests : recount_post(s)

SpecTree == Init /\ [][NextTree]_vars

\* The reaction engine, one request after another.
NextReact ==
    \/ /\ requests = <<>>
       /\ \/ \E u \in Users : Fresh("post") <= MaxPosts /\ create_post(u, "t1", "c1", <<>>)
          \/ \E u \in Users, p \in PostIds : activate_post(u, p)
          \/ \E u \in Users, p \in PostIds : archive_post(u, p)
          \/ \E v \in Viewers, p \in PostIds : get_post(v, p)
          \/ \E u \in Users, p \in PostIds :
               Fresh("comment") <= MaxComments /\ create_comment(u, p, "c1")
          \/ \E u \in Users, p \in PostIds, c \in CommentIds :
               Fresh("reply") <= MaxReplies /\ create_reply(u, p, c, "c1")
          \/ \E u \in Users, p \in PostIds, c \in CommentIds : archive_comment(u, p, c)
          \/ \E u \in Users, p \in PostIds, c \in CommentIds, r \in ReplyIds :
               delete_reply(u, p, c, r)
          \/ \E u \in Users, tt \in TargetType, id \in PostIds \cup CommentIds \cup ReplyIds,
                ty \in ReactionType :
               /\ (Fresh("reaction") <= MaxReactions
                      \/ ExistingReactions(reactions, u, tt, id) # {})
               /\ create_reaction(1, u, tt, id, ty)
    \/ \E s \in DOMAIN requests : commit_reaction(s)
    \/ \E s \in DOMAIN requests : load_reaction(s)
    \/ \E s \in DOMAIN requests : load_target(s)
    \/ \E s \in DOMAIN requests : commit_counts(s)
    \/ \E s \in DOMAIN requests : return_reaction(s)

SpecReact == Init /\ [][NextReact]_vars

\* The reaction engine under concurrent requests on posts.
NextConc ==
    \/ \E u \in Users : Fresh("post") <= MaxPosts /\ create_post(u, "t1", "c1", <<>>)
    \/ \E u \in Users, p \in PostIds : activate_post(u, p)
    \/ \E u \in Users, p \in PostIds, ty \in ReactionType :
         Fresh("request") <= MaxRequests
            /\ create_reaction(Fresh("request"), u, POST, p, ty)
    \/ \E s \in DOMAIN requests : commit_reaction(s)
    \/ \E s \in DOMAIN requests : load_reaction(s)
    \/ \E s \in DOMAIN requests : load_target(s)
    \/ \E s \in DOMAIN requests : commit_counts(s)
    \/ \E s \in DOMAIN requests : return_reaction(s)
    \/ \E s \in DOMAIN requests : crash(s)

SpecConc == Init /\ [][NextConc]_vars

\* The reaction engine with requests interleaved and every worker running to
\* its response.
NextRace ==
    \/ \E u \in Users : Fresh("post") <= MaxPosts /\ create_post(u, "t1", "c1", <<>>)
    \/ \E u \in Users, p \in PostIds : activate_post(u, p)
    \/ \E u \in Users, p \in PostIds, ty \in ReactionType :
         Fresh("request") <= MaxRequests
            /\ create_reaction(Fresh("request"), u, POST, p, ty)
    \/ \E s \in DOMAIN requests : commit_reaction(s)
    \/ \E s \in DOMAIN requests : load_reaction(s)
    \/ \E s \in DOMAIN requests : load_target(s)
    \/ \E s \in DOMAIN requests : commit_counts(s)
    \/ \E s \in DOMAIN requests : return_reaction(s)

SpecRace == Init /\ [][NextRace]_vars

\* Tags and their links: two posts of one author, two tags.
TaggedPostIds == 1..MaxTaggedPosts
LinkedTagIds == 1..MaxLinkedTags
LinkedTagIdLists == ListsUpTo(LinkedTagIds, MaxTagIds)

NextTags ==
    \/ /\ requests = <<>>
       /\ \/ \E ids \in LinkedTagIdLists :
               Fresh("post") <= MaxTaggedPosts /\ create_post("u1", "t1", "c1", ids)
          \/ \E p \in TaggedPostIds, t \in {None, "t2"}, given \in BOOLEAN,
                ids \in LinkedTagIdLists :
               (given \/ ids = <<>>) /\ update_post(1, "u1", p, t, None, None, given, ids)
          \/ \E p \in TaggedPostIds : activate_post("u1", p)
          \/ \E p \in TaggedPostIds : delete_post("u1", p)
          \/ \E n \in TagNames : Fresh("tag") <= MaxLinkedTags /\ create_tag("u1", n, None)
          \/ \E t \in LinkedTagIds : archive_tag("u1", t)
          \/ \E p \in TaggedPostIds, t \in LinkedTagIds : add_tag_to_post("u1", p, t)
          \/ \E p \in TaggedPostIds, t \in LinkedTagIds : remove_tag_from_post("u1", p, t)
    \/ \E s \in DOMAIN requests : recount_post(s)

SpecTags == Init /\ [][NextTags]_vars

\* The usage count of one tag: three posts of one author; the tag is linked
\* by create_post, update_post and add_tag_to_post and unlinked by update_post,
\* remove_tag_from_post and delete_post.
UsagePostIds == 1..MaxUsagePosts

NextUsage ==
    \/ /\ requests = <<>>
       /\ \/ \E ids \in TagIdLists :
               Fresh("post") <= MaxUsagePosts /\ create_post("u1", "t1", "c1", ids)
          \/ \E p \in UsagePostIds, ids \in TagIdLists :
               update_post(1, "u1", p, None, None, None, TRUE, ids)
          \/ \E p \in UsagePostIds : delete_post("u1", p)
          \/ Fresh("tag") <= MaxTags /\ create_tag("u1", "n1", None)
          \/ \E p \in UsagePostIds, t \in TagIds : add_tag_to_post("u1", p, t)
          \/ \E p \in UsagePostIds, t \in TagIds : remove_tag_from_post("u1", p, t)
    \/ \E s \in DOMAIN requests : recount_post(s)

SpecUsage == Init /\ [][NextUsage]_vars

\* Tag administration: two tags of either user, one post of u1.
NextTagAdmin ==
    \/ \E ids \in LinkedTagIdLists :
         Fresh("post") <= MaxPosts /\ create_post("u1", "t1", "c1", ids)
    \/ \E p \in PostIds : activate_post("u1", p)
    \/ \E u \in Users, n \in TagNames, d \in {None} \cup Descriptions :
         Fresh("tag") <= MaxLinkedTags /\ create_tag(u, n, d)
    \/ list_tags
    \/ \E t \in LinkedTagIds : get_tag(t)
    \/ \E u \in Users, t \in LinkedTagIds, n \in {None} \cup TagNames,
          d \in {None} \cup Descriptions : update_tag(u, t, n, d)
    \/ \E u \in Users, t \in LinkedTagIds : delete_tag(u, t)
    \/ \E u \in Users, t \in LinkedTagIds : archive_tag(u, t)
    \/ \E p \in PostIds, t \in LinkedTagIds : add_tag_to_post("u1", p, t)
    \/ \E v \in Viewers, p \in PostIds : list_post_tags(v, p)

SpecTagAdmin == Init /\ [][NextTagAdmin]_vars

ThreadPostIds == 1..MaxThreadPosts
ThreadCommentIds == 1..MaxThreadComments
ThreadReplyIds == 1..MaxThreadReplies

\* Comments: one post through its whole lifecycle, two comments with
\* replies under them, every request made by the one author.
NextComments ==
    \/ Fresh("post") <= MaxPosts /\ create_post("u1", "t1", "c1", <<>>)
    \/ \E p \in PostIds : activate_post("u1", p)
    \/ \E p \in PostIds : modify_post("u1", p)
    \/ \E p \in PostIds : archive_post("u1", p)
    \/ \E p \in PostIds : delete_post("u1", p)
    \/ \E p \in PostIds :
         Fresh("comment") <= MaxThreadComments /\ create_comment("u1", p, "c1")
    \/ \E p \in PostIds : list_comments(p)
    \/ \E p \in PostIds, c \in ThreadCommentIds : get_comment(p, c)
    \/ \E p \in PostIds, c \in ThreadCommentIds : update_comment("u1", p, c, "c2")
    \/ \E p \in PostIds, c \in ThreadCommentIds : delete_comment("u1", p, c)
    \/ \E p \in PostIds, c \in ThreadCommentIds : activate_comment("u1", p, c)
    \/ \E p \in PostIds, c \in ThreadCommentIds : archive_comment("u1", p, c)
    \/ \E p \in PostIds, c \in ThreadCommentIds :
         Fresh("reply") <= MaxThreadReplies /\ create_reply("u1", p, c, "c1")
    \/ \E p \in PostIds, c \in ThreadCommentIds, r \in ThreadReplyIds : get_reply(p, c, r)
    \/ \E p \in PostIds, c \in ThreadCommentIds, r \in ThreadReplyIds :
         delete_reply("u1", p, c, r)

SpecComments == Init /\ [][NextComments]_vars

\* Authorship: a comment and a reply written by either user and addressed
\* by either user, the post's author among them.
NextAuthors ==
    \/ Fresh("post") <= MaxPosts /\ create_post("u1", "t1", "c1", <<>>)
    \/ \E p \in PostIds : activate_post("u1", p)
    \/ \E u \in Users, p \in PostIds :
         Fresh("comment") <= MaxComments /\ create_comment(u, p, "c1")
    \/ \E u \in Users, p \in PostIds, c \in CommentIds : update_comment(u, p, c, "c2")
    \/ \E u \in Users, p \in PostIds, c \in CommentIds : delete_comment(u, p, c)
    \/ \E u \in Users, p \in PostIds, c \in CommentIds : activate_comment(u, p, c)
    \/ \E u \in Users, p \in PostIds, c \in CommentIds : archive_comment(u, p, c)
    \/ \E u \in Users, p \in PostIds, c \in CommentIds :
         Fresh("reply") <= MaxReplies /\ create_reply(u, p, c, "c1")
    \/ \E u \in Users, p \in PostIds, c \in CommentIds, r \in ReplyIds :
         update_reply(u, p, c, r, "c2")
    \/ \E u \in Users, p \in PostIds, c \in CommentIds, r \in ReplyIds :
         delete_reply(u, p, c, r)
    \/ \E u \in Users, p \in PostIds, c \in CommentIds, r \in ReplyIds :
         activate_reply(u, p, c, r)
    \/ \E u \in Users, p \in PostIds, c \in CommentIds, r \in ReplyIds :
         archive_reply(u, p, c, r)

SpecAuthors == Init /\ [][NextAuthors]_vars

\* Replies: two replies under one comment of one post, with every reply
\* request and the deletions above them, all made by the one author.
NextReplies ==
    \/ Fresh("post") <= MaxPosts /\ create_post("u1", "t1", "c1", <<>>)
    \/ \E p \in PostIds : activate_post("u1", p)
    \/ \E p \in PostIds : archive_post("u1", p)
    \/ \E p \in PostIds : delete_post("u1", p)
    \/ \E p \in PostIds : Fresh("comment") <= MaxComments /\ create_comment("u1", p, "c1")
    \/ \E p \in PostIds, c \in CommentIds : update_comment("u1", p, c, "c2")
    \/ \E p \in PostIds, c \in CommentIds : archive_comment("u1", p, c)
    \/ \E p \in PostIds, c \in CommentIds : activate_comment("u1", p, c)
    \/ \E p \in PostIds, c \in CommentIds : delete_comment("u1", p, c)
    \/ \E p \in PostIds, c \in CommentIds :
         Fresh("reply") <= MaxThreadReplies /\ create_reply("u1", p, c, "c1")
    \/ \E p \in PostIds, c \in CommentIds : list_replies(p, c)
    \/ \E p \in PostIds, c \in CommentIds, r \in ThreadReplyIds : get_reply(p, c, r)
    \/ \E p \in PostIds, c \in CommentIds, r \in ThreadReplyIds :
         update_reply("u1", p, c, r, "c2")
    \/ \E p \in PostIds, c \in CommentIds, r \in ThreadReplyIds : delete_reply("u1", p, c, r)
    \/ \E p \in PostIds, c \in CommentIds, r \in ThreadReplyIds :
         activate_reply("u1", p, c, r)
    \/ \E p \in PostIds, c \in CommentIds, r \in ThreadReplyIds :
         archive_reply("u1", p, c, r)

SpecReplies == Init /\ [][NextReplies]_vars

\* Paths: two posts, two comments and a reply, each addressed through
\* every post and every comment, its own or not.
NextCross ==
    \/ Fresh("post") <= MaxThreadPosts /\ create_post("u1", "t1", "c1", <<>>)
    \/ \E p \in ThreadPostIds : activate_post("u1", p)
    \/ \E p \in ThreadPostIds : archive_post("u1", p)
    \/ \E p \in ThreadPostIds :
         Fresh("comment") <= MaxThreadComments /\ create_comment("u1", p, "c1")
    \/ \E p \in ThreadPostIds : list_comments(p)
    \/ \E p \in ThreadPostIds, c \in ThreadCommentIds : get_comment(p, c)
    \/ \E p \in ThreadPostIds, c \in ThreadCommentIds : update_comment("u1", p, c, "c2")
    \/ \E p \in ThreadPostIds, c \in ThreadCommentIds : delete_comment("u1", p, c)
    \/ \E p \in ThreadPostIds, c \in ThreadCommentIds : activate_comment("u1", p, c)
    \/ \E p \in ThreadPostIds, c \in ThreadCommentIds : archive_comment("u1", p, c)
    \/ \E p \in ThreadPostIds, c \in ThreadCommentIds :
         Fresh("reply") <= MaxReplies /\ create_reply("u1", p, c, "c1")
    \/ \E p \in ThreadPostIds, c \in ThreadCommentIds : list_replies(p, c)
    \/ \E p \in ThreadPostIds, c \in ThreadCommentIds, r \in ReplyIds : get_reply(p, c, r)
    \/ \E p \in ThreadPostIds, c \in ThreadCommentIds, r \in ReplyIds :
         update_reply("u1", p, c, r, "c2")
    \/ \E p \in ThreadPostIds, c \in ThreadCommentIds, r \in ReplyIds :
         delete_reply("u1", p, c, r)
    \/ \E p \in ThreadPostIds, c \in ThreadCommentIds, r \in ReplyIds :
         activate_reply("u1", p, c, r)
    \/ \E p \in ThreadPostIds, c \in ThreadCommentIds, r \in ReplyIds :
         archive_reply("u1", p, c, r)

SpecCross == Init /\ [][NextCross]_vars

\* Visibility: a comment, a reply and a tag, archived by their owner and
\* asked for by id.
NextVisible ==
    \/ Fresh("post") <= MaxPosts /\ create_post("u1", "t1", "c1", <<>>)
    \/ \E p \in PostIds : activate_post("u1", p)
    \/ \E p \in PostIds : Fresh("comment") <= MaxComments /\ create_comment("u1", p, "c1")
    \/ \E p \in PostIds, c \in CommentIds : archive_comment("u1", p, c)
    \/ \E p \in PostIds, c \in CommentIds : activate_comment("u1", p, c)
    \/ \E p \in PostIds, c \in CommentIds : get_comment(p, c)
    \/ \E p \in PostIds, c \in CommentIds :
         Fresh("reply") <= MaxReplies /\ create_reply("u1", p, c, "c1")
    \/ \E p \in PostIds, c \in CommentIds, r \in ReplyIds : archive_reply("u1", p, c, r)
    \/ \E p \in PostIds, c \in CommentIds, r \in ReplyIds : activate_reply("u1", p, c, r)
    \/ \E p \in PostIds, c \in CommentIds, r \in ReplyIds : get_reply(p, c, r)
    \/ \E n \in TagNames : Fresh("tag") <= MaxTags /\ create_tag("u1", n, None)
    \/ \E t \in TagIds : archive_tag("u1", t)
    \/ \E t \in TagIds : get_tag(t)

SpecVisible == Init /\ [][NextVisible]_vars

\* References: a post with its comment, reply and tag links, and every
\* request that deletes a row others refer to.
NextRefs ==
    \/ /\ requests = <<>>
       /\ \/ \E ids \in TagIdLists : Fresh("post") <= MaxPosts /\ create_post("u1", "t1", "c1", ids)
          \/ \E p \in PostIds : activate_post("u1", p)
          \/ \E p \in PostIds, ids \in TagIdLists :
               update_post(1, "u1", p, None, None, None, TRUE, ids)
          \/ \E p \in PostIds : delete_post("u1", p)
          \/ \E p \in PostIds : Fresh("comment") <= MaxComments /\ create_comment("u1", p, "c1")
          \/ \E p \in PostIds, c \in CommentIds : delete_comment("u1", p, c)
          \/ \E p \in PostIds, c \in CommentIds :
               Fresh("reply") <= MaxReplies /\ create_reply("u1", p, c, "c1")
          \/ \E p \in PostIds, c \in CommentIds, r \in ReplyIds : delete_reply("u1", p, c, r)
          \/ \E n \in TagNames : Fresh("tag") <= MaxTags /\ create_tag("u1", n, None)
          \/ \E t \in TagIds : archive_tag("u1", t)
          \/ \E t \in TagIds : delete_tag("u1", t)
          \/ \E p \in PostIds, t \in TagIds : add_tag_to_post("u1", p, t)
          \/ \E p \in PostIds, t \in TagIds : remove_tag_from_post("u1", p, t)
    \/ \E s \in DOMAIN requests : recount_post(s)

SpecRefs == Init /\ [][NextRefs]_vars

\* The tags of one post of u1 through the post's life, read by every viewer.
NextPostTags ==
    \/ \E ids \in LinkedTagIdLists :
         Fresh("post") <= MaxPosts /\ create_post("u1", "t1", "c1", ids)
    \/ \E p \in PostIds : activate_post("u1", p)
    \/ \E p \in PostIds : modify_post("u1", p)
    \/ \E p \in PostIds : archive_post("u1", p)
    \/ \E n \in TagNames :
         Fresh("tag") <= MaxLinkedTags /\ create_tag("u1", n, None)
    \/ \E t \in LinkedTagIds : archive_tag("u1", t)
    \/ \E p \in PostIds, t \in LinkedTagIds : add_tag_to_post("u1", p, t)
    \/ \E v \in Viewers, p \in PostIds : list_post_tags(v, p)

SpecPostTags == Init /\ [][NextPostTags]_vars

\* Listings: posts of two users in every status, listed by either user under
\* every combination of filters.
NextList ==
    \/ \E u \in Users : Fresh("post") <= MaxThreadPosts /\ create_post(u, "t1", "c1", <<>>)
    \/ \E u \in Users, p \in ThreadPostIds : activate_post(u, p)
    \/ \E u \in Users, p \in ThreadPostIds : modify_post(u, p)
    \/ \E u \in Users, p \in ThreadPostIds : archive_post(u, p)
    \/ \E u \in Users, p \in ThreadPostIds : delete_post(u, p)
    \/ \E v \in Users, st \in {None} \cup PostStatus, a \in {None} \cup Users :
         list_posts(v, st, a)

SpecList == Init /\ [][NextList]_vars
\* ------------------------------------------------------------------ claims
\* The post the last request named, when it exists.
LastPostExists == last.post \in DOMAIN posts

\* C1: get_post on an existing post answers 200 exactly when the post is not
\* DRAFT or the viewer is its author; on a DRAFT post an anonymous viewer gets
\* 401 and an authenticated non-author 403.
C1_GetPostVisibility ==
    [][(last'.op = "get_post" /\ last'.post \in DOMAIN posts) =>
        LET row == posts[last'.post]
            v == last'.actor
        IN  /\ (last'.code = HTTP_200_OK) <=> (row.status # DRAFT \/ v = row.author_id)
            /\ (row.status = DRAFT /\ v = None) => last'.code = HTTP_401_UNAUTHORIZED
            /\ (row.status = DRAFT /\ v \in Users /\ v # row.author_id)
                    => last'.code = HTTP_403_FORBIDDEN
            /\ (row.status \in {ACTIVE, MODIFYING, ARCHIVED}) => last'.code = HTTP_200_OK
      ]_vars

\* A draft was refused to an authenticated non-author.
C1_Witness ==
    /\ last.op = "get_post" /\ last.code = HTTP_403_FORBIDDEN
    /\ LastPostExists
    /\ posts[last.post].status = DRAFT
    /\ last.actor \in Users \ {posts[last.post].author_id}

StatusEdges ==
    {<<DRAFT, ACTIVE>>, <<ACTIVE, MODIFYING>>, <<MODIFYING, ACTIVE>>,
     <<ACTIVE, ARCHIVED>>, <<MODIFYING, ARCHIVED>>}

\* C2: every change of a post's status follows one of the edges DRAFT->ACTIVE,
\* ACTIVE->MODIFYING, MODIFYING->ACTIVE, ACTIVE->ARCHIVED, MODIFYING->ARCHIVED.
C2_StatusFollowsEdges ==
    [][\A p \in DOMAIN posts \cap DOMAIN posts' :
            posts'[p].status # posts[p].status
                => <<posts[p].status, posts'[p].status>> \in StatusEdges
      ]_vars

\* C3: activate_post and modify_post by the author on an ARCHIVED post answer
\* 400 and leave the post ARCHIVED.
C3_ArchivedStaysArchived ==
    [][(/\ last'.op \in {"activate_post", "modify_post"}
        /\ last'.post \in DOMAIN posts
        /\ posts[last'.post].status = ARCHIVED
        /\ last'.actor = posts[last'.post].author_id)
        => /\ last'.code = HTTP_400_BAD_REQUEST
           /\ posts'[last'.post].status = ARCHIVED
      ]_vars

PostMutations ==
    {"update_post", "activate_post", "modify_post", "archive_post", "delete_post",
     "add_tag_to_post", "remove_tag_from_post"}

\* C4: a mutation of a post requested by an authenticated principal who is not
\* its author answers 403 and changes no post, comment, reply, tag link or
\* usage_count; no update_post of a non-author gets to its first commit.
C4_NonAuthorForbidden ==
    /\ [][(/\ last' # last
           /\ last'.op \in PostMutations
           /\ last'.post \in DOMAIN posts
           /\ last'.actor # posts[last'.post].author_id)
           => /\ last'.code = HTTP_403_FORBIDDEN
              /\ UNCHANGED <<posts, comments, replies, tags, post_tags>>
         ]_vars
    /\ [](\A s \in DOMAIN requests :
             requests[s].post \in DOMAIN posts
                => requests[s].user = posts[requests[s].post].author_id)

\* A non-author's delete of a post that has a comment, a reply and a tag link
\* was refused.
C4_Witness ==
    /\ last.op = "delete_post" /\ last.code = HTTP_403_FORBIDDEN
    /\ LastPostExists
    /\ last.actor # posts[last.post].author_id
    /\ CommentsOf(last.post) # {}
    /\ RepliesOf(CommentsOf(last.post)) # {}
    /\ LinksOf(last.post) # {}

\* C5: update_post by the author succeeds only on a DRAFT or MODIFYING post;
\* on an ACTIVE or ARCHIVED post it answers 400 and changes no post field, tag
\* link or usage_count.
\* The step that takes an update_post to its first commit starts from a DRAFT
\* or MODIFYING post; the step that answers the author's update_post of an
\* ACTIVE or ARCHIVED post answers 400 with nothing changed and nothing left
\* to commit.
C5_UpdateNeedsDraftOrModifying ==
    /\ [][\A s \in DOMAIN requests' \ DOMAIN requests :
            posts[requests'[s].post].status \in {DRAFT, MODIFYING}]_vars
    /\ [][(/\ requests = <<>>
           /\ last' # last
           /\ last'.op = "update_post"
           /\ last'.post \in DOMAIN posts
           /\ last'.actor = posts[last'.post].author_id
           /\ posts[last'.post].status \in {ACTIVE, ARCHIVED})
           => /\ last'.code = HTTP_400_BAD_REQUEST
              /\ UNCHANGED <<posts, post_tags, tags, requests>>
         ]_vars

\* The author's update of an ACTIVE post that carries a tag link was refused.
C5_Witness ==
    /\ last.op = "update_post" /\ last.code = HTTP_400_BAD_REQUEST
    /\ LastPostExists
    /\ last.actor = posts[last.post].author_id
    /\ posts[last.post].status = ACTIVE
    /\ LinksOf(last.post) # {}

\* Ids already handed out whose row is gone.
Gone(table, kind) == {i \in 1..(next_id[kind] - 1) : i \notin DOMAIN table}

\* C6: a successful delete_post leaves no Post with that id, no Comment of the
\* post, no Reply of those comments and no PostTag link of the post; the rows
\* stay gone, and a later get naming the deleted post answers 404.
C6_DeleteCascades ==
    /\ [][(last' # last /\ last'.op = "delete_post" /\ last'.code = HTTP_204_NO_CONTENT) =>
            LET p == last'.post
            IN  /\ p \in DOMAIN posts /\ p \notin DOMAIN posts'
                /\ \A c \in DOMAIN comments' : comments'[c].post_id # p
                /\ \A c \in CommentsOf(p) :
                        \A r \in DOMAIN replies' : replies'[r].comment_id # c
                /\ \A l \in post_tags' : l.post_id # p
          ]_vars
    /\ [][/\ Gone(posts, "post") \subseteq Gone(posts', "post")
          /\ Gone(comments, "comment") \subseteq Gone(comments', "comment")
          /\ Gone(replies, "reply") \subseteq Gone(replies', "reply")
          ]_vars
    /\ [][(/\ last'.op \in {"get_post", "get_comment", "get_reply"}
           /\ last'.post \in Gone(posts, "post"))
            => last'.code = HTTP_404_NOT_FOUND
          ]_vars

\* A post that had a comment, a reply and a tag link was deleted by its author.
C6_Witness ==
    /\ last.op = "delete_post" /\ last.code = HTTP_204_NO_CONTENT
    /\ Gone(comments, "comment") # {}
    /\ Gone(replies, "reply") # {}
    /\ \E t \in DOMAIN tags : tags[t].usage_count > 0

\* Every existing target of a reaction: <<target_type, target_id>>.
Targets ==
    {<<POST, p>> : p \in DOMAIN posts} \cup {<<COMMENT, c>> : c \in DOMAIN comments}
        \cup {<<REPLY, r>> : r \in DOMAIN replies}

\* C7: a step that creates, retypes or deletes a Reaction row changes the
\* target's likes_count and dislikes_count by the matching amounts in the same
\* step, so no committed state has the row changed without the counters.
C7_ReactionAtomicWithCounters ==
    [][\A t \in Targets :
           LET row == TargetTable(t[1])[t[2]]
               row2 == TargetTable(t[1])'[t[2]]
           IN  (t[2] \in DOMAIN TargetTable(t[1])') =>
               /\ row2.likes_count - row.likes_count
                    = CountReactions(reactions', t[1], t[2], LIKE)
                        - CountReactions(reactions, t[1], t[2], LIKE)
               /\ row2.dislikes_count - row.dislikes_count
                    = CountReactions(reactions', t[1], t[2], DISLIKE)
                        - CountReactions(reactions, t[1], t[2], DISLIKE)
      ]_vars

\* C8: requests run one after another leave at most one Reaction row for each
\* (user_id, target_id, target_type).
C8_OneReactionPerKey ==
    \A r1, r2 \in DOMAIN reactions :
        (/\ reactions[r1].user_id = reactions[r2].user_id
         /\ reactions[r1].target_id = reactions[r2].target_id
         /\ reactions[r1].target_type = reactions[r2].target_type) => r1 = r2

\* A user who already had a reaction reacted again with the other type, and
\* another user's reaction sits on the same target.
C8_Witness ==
    /\ requests = <<>>
    /\ last.op = "create_reaction" /\ last.outcome = "updated"
    /\ CountReactions(reactions, last.target_type, last.target_id, LIKE) = 1
    /\ CountReactions(reactions, last.target_type, last.target_id, DISLIKE) = 1

\* C9: once no request is in flight, each (user, target_id, target_type) has
\* at most one Reaction row: two concurrent requests of one user for one
\* target did not both take the create path.
C9_ConcurrentCreateOnce ==
    requests = <<>> =>
        \A u \in Users, t \in Targets :
            Cardinality(ExistingReactions(reactions, u, t[1], t[2])) <= 1

\* C10: react(actor, T) twice in a row on an ACTIVE target with no reaction of
\* the actor: the first call creates the row and raises T's counter by one,
\* the second removes the row and lowers it by one, and the Reaction table and
\* both counters end as they were before the two calls.
C10_ReactTwiceNetZero ==
    /\ (requests = <<>> /\ base.calls = 1) =>
        LET row == TargetTable(base.target_type)[base.target_id]
            mine == ExistingReactions(reactions, base.actor, base.target_type,
                                      base.target_id)
        IN  /\ last.outcome = "created"
            /\ Cardinality(mine) = 1
            /\ \A r \in mine : reactions[r].type = base.type
            /\ Delete(reactions, mine) = base.reactions
            /\ row.likes_count = base.likes_count + (IF base.type = LIKE THEN 1 ELSE 0)
            /\ row.dislikes_count
                    = base.dislikes_count + (IF base.type = DISLIKE THEN 1 ELSE 0)
    /\ (requests = <<>> /\ base.calls = 2) =>
        LET row == TargetTable(base.target_type)[base.target_id]
        IN  /\ last.outcome = "removed"
            /\ reactions = base.reactions
            /\ row.likes_count = base.likes_count
            /\ row.dislikes_count = base.dislikes_count

\* The second of two identical calls has removed the reaction the first made,
\* on a target that another user has reacted to.
C10_Witness ==
    /\ requests = <<>>
    /\ base.calls = 2
    /\ last.op = "create_reaction" /\ last.code = HTTP_204_NO_CONTENT
    /\ base.reactions # <<>>

\* C11: react(actor, T) then react(actor, the other type) on an ACTIVE target
\* with no reaction of the actor: the second call switches, leaving exactly
\* one Reaction row of the actor on the target, of the second type, with T's
\* counter back at its starting value and the other counter one above it.
C11_CreateThenSwitch ==
    (requests = <<>> /\ base # NoBase /\ base.calls = 0) =>
        LET row == TargetTable(base.target_type)[base.target_id]
            mine == ExistingReactions(reactions, base.actor, base.target_type,
                                      base.target_id)
        IN  /\ last.outcome = "updated"
            /\ base.switched # base.type
            /\ Cardinality(mine) = 1
            /\ \A r \in mine : reactions[r].type = base.switched
            /\ [r \in DOMAIN reactions \ mine |-> reactions[r]] = base.reactions
            /\ row.likes_count
                    = base.likes_count + (IF base.switched = LIKE THEN 1 ELSE 0)
            /\ row.dislikes_count
                    = base.dislikes_count + (IF base.switched = DISLIKE THEN 1 ELSE 0)

\* A LIKE was switched to DISLIKE by the next call, on a target that carries
\* another user's reaction.
C11_Witness ==
    /\ requests = <<>>
    /\ base # NoBase /\ base.calls = 0
    /\ base.type = LIKE /\ base.switched = DISLIKE
    /\ base.reactions # <<>>

ReactionOutcomes == {"created", "updated", "removed"}

\* C12: the responses of a call that creates, a call that switches and a call
\* that removes carry different status signals: two calls in a row that made
\* different transitions never answered with the same status code.
C12_DistinctOutcomeSignals ==
    [][(/\ last.op = "create_reaction" /\ last'.op = "create_reaction"
        /\ last.outcome \in ReactionOutcomes /\ last'.outcome \in ReactionOutcomes
        /\ last.outcome # last'.outcome)
       => last.code # last'.code]_vars

\* C13: create_reaction on an id absent from the target_type's table answers
\* 404, on a target whose status is not ACTIVE it answers 400, and in both
\* cases the Reaction table and every target row stay as they were.
C13_BadTargetRejected ==
    [][\A u \in Users, tt \in TargetType, id \in PostIds \cup CommentIds \cup ReplyIds,
          ty \in ReactionType :
         (/\ requests = <<>>
          /\ (requests' # <<>> \/ last'.op = "create_reaction")
          /\ (id \notin DOMAIN TargetTable(tt) \/ TargetTable(tt)[id].status # ACTIVE)
          /\ create_reaction(1, u, tt, id, ty))
         => /\ last'.op = "create_reaction"
            /\ last'.code = IF id \notin DOMAIN TargetTable(tt)
                            THEN HTTP_404_NOT_FOUND ELSE HTTP_400_BAD_REQUEST
            /\ requests' = <<>>
            /\ UNCHANGED <<reactions, posts, comments, replies>>
      ]_vars

\* A reaction to an ARCHIVED comment that already carries a reaction was
\* refused with 400.
C13_Witness ==
    /\ last.op = "create_reaction" /\ last.code = HTTP_400_BAD_REQUEST
    /\ last.target_type = COMMENT
    /\ last.target_id \in DOMAIN comments
    /\ comments[last.target_id].status = ARCHIVED
    /\ comments[last.target_id].likes_count = 1

\* C14: with requests run one after another, every Post, Comment and Reply
\* stores as likes_count the number of its LIKE Reaction rows and as
\* dislikes_count the number of its DISLIKE Reaction rows.
C14_CountsMatchRows ==
    requests = <<>> =>
    \A t \in Targets :
        LET row == TargetTable(t[1])[t[2]]
        IN  /\ row.likes_count = CountReactions(reactions, t[1], t[2], LIKE)
            /\ row.dislikes_count = CountReactions(reactions, t[1], t[2], DISLIKE)

\* A post with a LIKE and a reply with a DISLIKE, the second after a switch.
C14_Witness ==
    /\ requests = <<>>
    /\ last.op = "create_reaction" /\ last.outcome = "updated"
    /\ \E p \in DOMAIN posts : posts[p].likes_count = 1
    /\ \E r \in DOMAIN replies : replies[r].dislikes_count = 1

\* C15: after every completed request, each post's stored comments_count is
\* the number of ACTIVE comments whose post_id is that post.
C15_CommentsCountMatchesActive ==
    requests = <<>> =>
    \A p \in DOMAIN posts :
        posts[p].comments_count = CountActiveComments(comments, p)

\* The PostTag links that reference a tag.
LinksTo(t) == {l \in post_tags : l.tag_id = t}

\* C16: each existing tag's usage_count is the number of PostTag links that
\* reference the tag.
C16_UsageCountMatchesLinks ==
    \A t \in DOMAIN tags : tags[t].usage_count = Cardinality(LinksTo(t))

\* C17: usage_count is never negative; after a run of link calls on one tag
\* the count is the count before the run, plus the posts the run added the
\* tag to, minus the posts it removed the tag from (3 posts added and 1
\* removed from 0: 2), whether or not the run held removals from posts
\* without the link; and remove_tag_from_post on a post that has no link to
\* the tag leaves every usage_count and every link as it was.
C17_UsageCountNeverNegative ==
    /\ [](\A t \in DOMAIN tags : tags[t].usage_count >= 0)
    /\ [](usage_base.tag # 0 =>
            LET t == usage_base.tag
            IN  /\ t \in DOMAIN tags
                /\ tags[t].usage_count =
                        usage_base.usage_count + Cardinality(usage_base.added)
                            - Cardinality(usage_base.removed)
                /\ \A p \in usage_base.added :
                        ([post_id |-> p, tag_id |-> t] \in post_tags)
                            <=> (p \notin usage_base.removed))
    /\ [][\A u \in Users, p \in DOMAIN posts, t \in DOMAIN tags :
            (/\ last'.op = "remove_tag_from_post" /\ last'.post = p
             /\ [post_id |-> p, tag_id |-> t] \notin post_tags
             /\ remove_tag_from_post(u, p, t))
            => (tags' = tags /\ post_tags' = post_tags)]_vars

\* The tag, unused before, was added to three posts and removed from one of
\* them, and the last request removed it once more from that post, which no
\* longer had the link: the count is 2.
C17_Witness ==
    /\ usage_base.tag = 1 /\ usage_base.usage_count = 0
    /\ Cardinality(usage_base.added) = 3 /\ Cardinality(usage_base.removed) = 1
    /\ usage_base.redundant
    /\ last.op = "remove_tag_from_post" /\ last.code = HTTP_204_NO_CONTENT
    /\ last.post \in usage_base.removed
    /\ tags[1].usage_count = 2

\* Some id of the list names no tag, or a tag that is not ACTIVE.
SomeTagUnusable(tag_ids) ==
    \E t \in Range(tag_ids) : t \notin DOMAIN tags \/ tags[t].status # ACTIVE

\* The post exists in DRAFT or MODIFYING: update_post by its author gets as
\* far as the tags.
Updatable(p) == p \in DOMAIN posts /\ posts[p].status \in {DRAFT, MODIFYING}

\* C18: no step adds a PostTag link to a tag that is absent or not ACTIVE;
\* create_post and update_post (by the author, on a post open to updates)
\* whose tag_ids hold an absent or ARCHIVED tag, and add_tag_to_post (by the
\* author) with such a tag, answer 404 and add no link.
C18_ArchivedTagGainsNoLink ==
    /\ [][\A l \in post_tags' \ post_tags :
            l.tag_id \in DOMAIN tags /\ tags[l.tag_id].status = ACTIVE]_vars
    /\ [][\A ids \in LinkedTagIdLists :
            (/\ last'.op = "create_post" /\ SomeTagUnusable(ids)
             /\ create_post("u1", "t1", "c1", ids))
            => (last'.code = HTTP_404_NOT_FOUND /\ post_tags' = post_tags)]_vars
    /\ [][\A ids \in LinkedTagIdLists, p \in TaggedPostIds, t \in {None, "t2"} :
            (/\ requests = <<>>
             /\ (last'.op = "update_post" /\ last'.post = p) \/ requests' # <<>>
             /\ SomeTagUnusable(ids) /\ Updatable(p)
             /\ update_post(1, "u1", p, t, None, None, TRUE, ids))
            => /\ last'.op = "update_post" /\ last'.code = HTTP_404_NOT_FOUND
               /\ UNCHANGED <<post_tags, requests>>]_vars
    /\ [][\A p \in DOMAIN posts, t \in LinkedTagIds :
            (/\ last'.op = "add_tag_to_post" /\ last'.post = p
             /\ t \notin DOMAIN tags \/ tags[t].status # ACTIVE
             /\ add_tag_to_post("u1", p, t))
            => (last'.code = HTTP_404_NOT_FOUND /\ post_tags' = post_tags)]_vars

\* add_tag_to_post answered 404 on an existing post while one tag is ACTIVE
\* and the other, linked to a post, is ARCHIVED.
C18_Witness ==
    /\ last.op = "add_tag_to_post" /\ last.code = HTTP_404_NOT_FOUND
    /\ last.post \in DOMAIN posts
    /\ DOMAIN tags = {1, 2}
    /\ tags[1].status = ARCHIVED /\ tags[2].status = ACTIVE
    /\ LinksTo(1) # {}

\* C19: create_post and update_post that fail with 404 over an absent or
\* non-ACTIVE tag id leave every post, every PostTag link and every tag as
\* they were: no post appears and title, content and status keep their values.
C19_FailedTagCheckChangesNothing ==
    /\ [][\A ids \in LinkedTagIdLists :
            (/\ last'.op = "create_post" /\ SomeTagUnusable(ids)
             /\ create_post("u1", "t1", "c1", ids))
            => UNCHANGED <<posts, post_tags, tags>>]_vars
    /\ [][\A ids \in LinkedTagIdLists, p \in TaggedPostIds, t \in {None, "t2"} :
            (/\ requests = <<>>
             /\ (last'.op = "update_post" /\ last'.post = p) \/ requests' # <<>>
             /\ SomeTagUnusable(ids) /\ Updatable(p)
             /\ update_post(1, "u1", p, t, None, None, TRUE, ids))
            => UNCHANGED <<posts, post_tags, tags, requests>>]_vars

\* update_post answered 404 on an existing post that still has its first
\* title and a link to a tag.
C19_Witness ==
    /\ last.op = "update_post" /\ last.code = HTTP_404_NOT_FOUND
    /\ last.post \in DOMAIN posts
    /\ posts[last.post].title = "t1"
    /\ LinkedTags(last.post) # {}

\* C20: a successful update_post with tag_ids = S links the post to exactly
\* the tags of S; usage_count rises by one for each tag of S not linked
\* before, falls by one for each tag linked before and not in S, and stays
\* for every other tag.  The links and usage_counts are written by the first
\* commit; the rest of the request answers 200 and leaves them alone.
C20_UpdateReplacesTagSet ==
    /\ [][\A s \in DOMAIN requests :
            recount_post(s) => (last'.code = HTTP_200_OK
                                /\ UNCHANGED <<post_tags, tags>>)]_vars
    /\ [][\A ids \in LinkedTagIdLists, p \in TaggedPostIds, t \in {None, "t2"} :
            (/\ requests = <<>> /\ requests' # <<>>
             /\ update_post(1, "u1", p, t, None, None, TRUE, ids))
            => LET S == Range(ids)
                   before == {l.tag_id : l \in {k \in post_tags : k.post_id = p}}
                   after == {l.tag_id : l \in {k \in post_tags' : k.post_id = p}}
               IN  /\ after = S
                   /\ DOMAIN tags' = DOMAIN tags
                   /\ \A g \in DOMAIN tags :
                          tags'[g].usage_count - tags[g].usage_count
                            = IF g \in S \ before THEN 1
                              ELSE IF g \in before \ S THEN -1
                              ELSE 0
         ]_vars

\* After a successful update_post the post is linked to both tags while the
\* other post is linked to the first only.
C20_Witness ==
    /\ requests = <<>>
    /\ last.op = "update_post" /\ last.code = HTTP_200_OK
    /\ DOMAIN tags = {1, 2}
    /\ last.post \in DOMAIN posts
    /\ LinkedTags(last.post) = {1, 2}
    /\ tags[1].usage_count = 2 /\ tags[2].usage_count = 1

\* C21: no two tags, whatever their status, have the same name; create_tag
\* with a name some tag holds and update_tag (by the creator) renaming to a
\* name another tag holds answer 400 and leave every tag as it was.
C21_TagNamesUnique ==
    /\ [](\A t1, t2 \in DOMAIN tags : tags[t1].name = tags[t2].name => t1 = t2)
    /\ [][\A u \in Users, n \in TagNames, d \in {None} \cup Descriptions :
            (/\ last'.op = "create_tag"
             /\ \E t \in DOMAIN tags : tags[t].name = n
             /\ create_tag(u, n, d))
            => (last'.code = HTTP_400_BAD_REQUEST /\ tags' = tags)]_vars
    /\ [][\A u \in Users, t \in DOMAIN tags, n \in TagNames,
             d \in {None} \cup Descriptions :
            (/\ last'.op = "update_tag" /\ tags[t].creator_id = u
             /\ \E t2 \in DOMAIN tags \ {t} : tags[t2].name = n
             /\ update_tag(u, t, n, d))
            => (last'.code = HTTP_400_BAD_REQUEST /\ tags' = tags)]_vars

\* update_tag was refused with 400 while an ACTIVE and an ARCHIVED tag exist.
C21_Witness ==
    /\ last.op = "update_tag" /\ last.code = HTTP_400_BAD_REQUEST
    /\ DOMAIN tags = {1, 2}
    /\ tags[1].status = ARCHIVED /\ tags[2].status = ACTIVE

\* C22: update_tag, delete_tag and archive_tag asked by a user who is not the
\* tag's creator answer 403 and leave every tag and every PostTag link as
\* they were.
C22_NonCreatorForbidden ==
    [][\A u \in Users, t \in DOMAIN tags :
         (/\ last'.op \in {"update_tag", "delete_tag", "archive_tag"}
          /\ tags[t].creator_id # u
          /\ \/ \E n \in {None} \cup TagNames, d \in {None} \cup Descriptions :
                   update_tag(u, t, n, d)
             \/ delete_tag(u, t)
             \/ archive_tag(u, t))
         => (last'.code = HTTP_403_FORBIDDEN /\ UNCHANGED <<tags, post_tags>>)]_vars

\* delete_tag by a non-creator was refused while the only tag is linked to
\* the post.
C22_Witness ==
    /\ last.op = "delete_tag" /\ last.code = HTTP_403_FORBIDDEN
    /\ DOMAIN tags = {1} /\ tags[1].creator_id # last.actor
    /\ tags[1].usage_count = 1 /\ LinksTo(1) # {}

\* C23: archive_tag by the creator changes the tag's status and nothing else
\* (links and usage_count stay); an ARCHIVED tag stays ARCHIVED while it
\* exists, is in no list_tags result, gets 404 from get_tag and is in no tag
\* list reported for a post.
C23_ArchivedTagHidden ==
    /\ [][\A u \in Users, t \in DOMAIN tags :
            (/\ last'.op = "archive_tag" /\ last'.code = HTTP_200_OK
             /\ archive_tag(u, t))
            => /\ post_tags' = post_tags
               /\ tags' = [tags EXCEPT ![t].status = ARCHIVED]]_vars
    /\ [][\A t \in DOMAIN tags \cap DOMAIN tags' :
            tags[t].status = ARCHIVED => tags'[t].status = ARCHIVED]_vars
    /\ [](\A t \in DOMAIN tags : tags[t].status = ARCHIVED =>
            /\ last.op \in {"list_tags", "list_post_tags"} => t \notin last.result
            /\ (last.op = "get_tag" /\ last.item = t)
                    => last.code = HTTP_404_NOT_FOUND
            /\ \A p \in DOMAIN posts : t \notin ReportedTags(p))

\* The post is linked to both tags, the first is ARCHIVED and still counts
\* one use, and list_post_tags returned the second only.
C23_Witness ==
    /\ last.op = "list_post_tags" /\ last.code = HTTP_200_OK
    /\ last.result = {2}
    /\ LinkedTags(last.post) = {1, 2}
    /\ tags[1].status = ARCHIVED /\ tags[1].usage_count = 1
\* C24: create(comment) succeeds exactly when the post exists and is ACTIVE;
\* it then adds one ACTIVE comment of that post and raises the post's
\* comments_count by one. On a DRAFT, MODIFYING or ARCHIVED post it is
\* Forbidden, on an absent post NotFound, and then no comment is added and no
\* count changes.
C24_CreateCommentNeedsActivePost ==
    [][last'.op = "create_comment" =>
        IF last'.post \in DOMAIN posts /\ posts[last'.post].status = ACTIVE
        THEN /\ last'.code = HTTP_201_CREATED
             /\ \E c \in (DOMAIN comments') \ DOMAIN comments :
                  /\ DOMAIN comments' = DOMAIN comments \cup {c}
                  /\ comments'[c].status = ACTIVE
                  /\ comments'[c].post_id = last'.post
                  /\ comments'[c].author_id = last'.actor
             /\ \A d \in DOMAIN comments : comments'[d] = comments[d]
             /\ posts' = [posts EXCEPT ![last'.post].comments_count = @ + 1]
        ELSE /\ last'.code = (IF last'.post \in DOMAIN posts
                              THEN HTTP_403_FORBIDDEN ELSE HTTP_404_NOT_FOUND)
             /\ comments' = comments
             /\ posts' = posts]_vars

\* A second comment was created on an ACTIVE post that already had one.
C24_Witness ==
    /\ last.op = "create_comment"
    /\ last.code = HTTP_201_CREATED
    /\ last.post \in DOMAIN posts
    /\ posts[last.post].comments_count = 2
    /\ Cardinality(ActiveCommentsOf(last.post)) = 2

\* C25: list(comments) and get(comment) on a post that is not ACTIVE are
\* Forbidden; list on an ACTIVE post returns exactly the ACTIVE comments of
\* that post; get returns a comment only when it is ACTIVE and of that post.
C25_CommentReadsFiltered ==
    /\ [][last'.op = "list_comments" /\ last'.post \in DOMAIN posts =>
            IF posts[last'.post].status # ACTIVE
            THEN last'.code = HTTP_403_FORBIDDEN /\ last'.result = {}
            ELSE /\ last'.code = HTTP_200_OK
                 /\ last'.result = {c \in DOMAIN comments :
                                      /\ comments[c].post_id = last'.post
                                      /\ comments[c].status = ACTIVE}]_vars
    /\ [][\A p \in ThreadPostIds, c \in ThreadCommentIds :
            (last'.op = "get_comment" /\ last'.post = p /\ get_comment(p, c)) =>
                /\ (p \in DOMAIN posts /\ posts[p].status # ACTIVE
                        => last'.code = HTTP_403_FORBIDDEN)
                /\ (last'.code = HTTP_200_OK
                        => /\ c \in DOMAIN comments
                           /\ comments[c].status = ACTIVE
                           /\ comments[c].post_id = p)]_vars

\* A listing returned one comment and left out an ARCHIVED comment of the
\* same post.
C25_Witness ==
    /\ last.op = "list_comments"
    /\ last.code = HTTP_200_OK
    /\ last.result # {}
    /\ \E d \in CommentsOf(last.post) \ last.result : comments[d].status = ARCHIVED

\* The path names an existing ACTIVE post that is not the comment's own.
CrossPost(p, c) ==
    /\ p \in DOMAIN posts
    /\ posts[p].status = ACTIVE
    /\ c \in DOMAIN comments
    /\ comments[c].post_id # p
\* The path names an existing ACTIVE post and an existing ACTIVE comment that
\* is not the reply's own.
CrossComment(p, c, r) ==
    /\ p \in DOMAIN posts
    /\ posts[p].status = ACTIVE
    /\ c \in DOMAIN comments
    /\ comments[c].status = ACTIVE
    /\ r \in DOMAIN replies
    /\ replies[r].comment_id # c
Refused == last'.code = HTTP_404_NOT_FOUND /\ UNCHANGED db

\* C26: when the post of the path exists and is ACTIVE but is not the
\* comment's post, every get, update, delete, activate and archive of the
\* comment and every create, list, get, update, delete, activate and archive
\* of a reply under it is NotFound and changes nothing; so is every get,
\* update, delete, activate and archive of a reply through an existing ACTIVE
\* comment that is not the reply's own.
C26_CrossPostGuard ==
    [][\A p \in ThreadPostIds, c \in ThreadCommentIds :
        /\ (/\ last'.post = p
            /\ CrossPost(p, c)
            /\ \/ get_comment(p, c)
               \/ update_comment("u1", p, c, "c2")
               \/ delete_comment("u1", p, c)
               \/ activate_comment("u1", p, c)
               \/ archive_comment("u1", p, c)
               \/ create_reply("u1", p, c, "c1")
               \/ list_replies(p, c)
               \/ \E r \in RepliesOf({c}) :
                    \/ get_reply(p, c, r)
                    \/ update_reply("u1", p, c, r, "c2")
                    \/ delete_reply("u1", p, c, r)
                    \/ activate_reply("u1", p, c, r)
                    \/ archive_reply("u1", p, c, r))
           => Refused
        /\ \A r \in ReplyIds :
            (/\ last'.post = p
             /\ CrossComment(p, c, r)
             /\ \/ get_reply(p, c, r)
                \/ update_reply("u1", p, c, r, "c2")
                \/ delete_reply("u1", p, c, r)
                \/ activate_reply("u1", p, c, r)
                \/ archive_reply("u1", p, c, r))
            => Refused]_vars

\* A delete was refused as NotFound although its post is ACTIVE and every
\* comment, one of them with a reply, exists under the other post.
C26_Witness ==
    /\ last.op = "delete_comment"
    /\ last.code = HTTP_404_NOT_FOUND
    /\ last.post \in DOMAIN posts
    /\ posts[last.post].status = ACTIVE
    /\ \A c \in ThreadCommentIds :
         c \in DOMAIN comments /\ comments[c].post_id # last.post
                               /\ comments[c].status = ACTIVE
    /\ replies # <<>>

\* C27: an update, delete, activate or archive of a comment or of a reply,
\* rightly addressed but made by anyone other than its author, the post's
\* author included, is Forbidden and leaves the comments, the replies and
\* the post with its comments_count unchanged.
C27_OnlyAuthorWrites ==
    [][\A u \in Users, p \in PostIds, c \in CommentIds :
        /\ (/\ last'.actor = u
            /\ c \in DOMAIN comments
            /\ comments[c].post_id = p
            /\ comments[c].author_id # u
            /\ \/ update_comment(u, p, c, "c2")
               \/ delete_comment(u, p, c)
               \/ activate_comment(u, p, c)
               \/ archive_comment(u, p, c))
           => /\ last'.code = HTTP_403_FORBIDDEN
              /\ UNCHANGED <<comments, replies, posts>>
        /\ \A r \in ReplyIds :
            (/\ last'.actor = u
             /\ r \in DOMAIN replies
             /\ replies[r].comment_id = c
             /\ comments[c].post_id = p
             /\ replies[r].author_id # u
             /\ \/ update_reply(u, p, c, r, "c2")
                \/ delete_reply(u, p, c, r)
                \/ activate_reply(u, p, c, r)
                \/ archive_reply(u, p, c, r))
            => /\ last'.code = HTTP_403_FORBIDDEN
               /\ UNCHANGED <<comments, replies, posts>>]_vars

\* The post's author was refused the deletion of another user's ACTIVE
\* comment on their ACTIVE post.
C27_Witness ==
    /\ last.op = "delete_comment"
    /\ last.code = HTTP_403_FORBIDDEN
    /\ last.post \in DOMAIN posts
    /\ posts[last.post].status = ACTIVE
    /\ posts[last.post].author_id = last.actor
    /\ \A c \in CommentIds :
         /\ c \in DOMAIN comments
         /\ comments[c].post_id = last.post
         /\ comments[c].author_id # last.actor
         /\ comments[c].status = ACTIVE
    /\ replies # <<>>

\* The comments under post p, their contents and their statuses are the
\* same before and after the step.
Frozen(p) ==
    /\ {c \in DOMAIN comments' : comments'[c].post_id = p} = CommentsOf(p)
    /\ \A c \in CommentsOf(p) : /\ comments'[c].content = comments[c].content
                                /\ comments'[c].status = comments[c].status

\* C28: while a post is not ACTIVE, every create, update, delete, activate
\* and archive of a comment under it fails and changes nothing, and as long
\* as the post exists the comments under it, their contents and statuses stay
\* as they are; an update or delete of a comment that is not ACTIVE is
\* Forbidden and changes nothing.
C28_DiscussionFrozen ==
    /\ [][\A p \in PostIds, c \in ThreadCommentIds :
            (/\ last'.post = p
             /\ p \in DOMAIN posts
             /\ posts[p].status # ACTIVE
             /\ \/ create_comment("u1", p, "c1")
                \/ /\ c \in CommentsOf(p)
                   /\ \/ update_comment("u1", p, c, "c2")
                      \/ delete_comment("u1", p, c)
                      \/ activate_comment("u1", p, c)
                      \/ archive_comment("u1", p, c))
            => last'.code = HTTP_403_FORBIDDEN /\ UNCHANGED db]_vars
    /\ [][\A p \in DOMAIN posts :
            posts[p].status # ACTIVE /\ p \in DOMAIN posts' => Frozen(p)]_vars
    /\ [][\A p \in PostIds, c \in ThreadCommentIds :
            (/\ last'.post = p
             /\ c \in CommentsOf(p)
             /\ comments[c].status # ACTIVE
             /\ \/ update_comment("u1", p, c, "c2")
                \/ delete_comment("u1", p, c))
            => last'.code = HTTP_403_FORBIDDEN /\ UNCHANGED db]_vars

\* An update was refused on a MODIFYING post that holds two comments of the
\* caller, one ACTIVE and one ARCHIVED.
C28_Witness ==
    /\ last.op = "update_comment"
    /\ last.code = HTTP_403_FORBIDDEN
    /\ last.post \in DOMAIN posts
    /\ posts[last.post].status = MODIFYING
    /\ \A c \in ThreadCommentIds :
         /\ c \in CommentsOf(last.post)
         /\ comments[c].author_id = last.actor
    /\ \E c, d \in ThreadCommentIds :
         comments[c].status = ACTIVE /\ comments[d].status = ARCHIVED

\* A successful delete_comment removes the comment and all its replies,
\* lowers the post's comments_count by one and leaves every other comment and
\* reply as it was.
DeleteCommentEffect ==
    \A p \in PostIds, c \in ThreadCommentIds :
        (/\ last'.op = "delete_comment"
         /\ last'.code = HTTP_204_NO_CONTENT
         /\ last'.post = p
         /\ delete_comment("u1", p, c))
        => /\ c \in DOMAIN comments /\ c \notin DOMAIN comments'
           /\ \A r \in DOMAIN replies :
                IF replies[r].comment_id = c
                THEN r \notin DOMAIN replies'
                ELSE r \in DOMAIN replies' /\ replies'[r] = replies[r]
           /\ posts' = [posts EXCEPT ![p].comments_count = @ - 1]
           /\ \A d \in (DOMAIN comments) \ {c} :
                d \in DOMAIN comments' /\ comments'[d] = comments[d]
\* Removed comments and replies never come back.
RemovedStayRemoved ==
    /\ Gone(comments, "comment") \subseteq Gone(comments', "comment")
    /\ Gone(replies, "reply") \subseteq Gone(replies', "reply")
\* Every get of a removed comment or reply is NotFound.
RemovedNotFound ==
    /\ \A p \in PostIds, c \in Gone(comments, "comment") :
        (last'.op = "get_comment" /\ last'.post = p /\ get_comment(p, c))
        => last'.code = HTTP_404_NOT_FOUND
    /\ \A p \in PostIds, c \in ThreadCommentIds, r \in Gone(replies, "reply") :
        (last'.op = "get_reply" /\ last'.post = p /\ get_reply(p, c, r))
        => last'.code = HTTP_404_NOT_FOUND
\* A get of a removed comment or reply is NotFound when the checks on the
\* path above it pass, and Forbidden when the post, or the comment a reply is
\* asked through, is not ACTIVE.
RemovedNotFoundOnActivePath ==
    /\ \A p \in PostIds, c \in Gone(comments, "comment") :
        (last'.op = "get_comment" /\ last'.post = p /\ get_comment(p, c))
        => last'.code = (IF p \in DOMAIN posts /\ posts[p].status # ACTIVE
                         THEN HTTP_403_FORBIDDEN ELSE HTTP_404_NOT_FOUND)
    /\ \A p \in PostIds, c \in ThreadCommentIds, r \in Gone(replies, "reply") :
        (last'.op = "get_reply" /\ last'.post = p /\ get_reply(p, c, r))
        => last'.code = (IF ReplyPathDenied(p, c) = HTTP_403_FORBIDDEN
                         THEN HTTP_403_FORBIDDEN ELSE HTTP_404_NOT_FOUND)

\* C29: a successful delete(comment) removes the comment and every reply to
\* it whatever its status, lowers the post's comments_count by one and
\* changes no other comment or reply; a later get of the comment or of those
\* replies is NotFound while the post, and the comment a reply is asked
\* through, are ACTIVE or absent, and Forbidden otherwise.
C29_DeleteCommentCascades ==
    /\ [][DeleteCommentEffect]_vars
    /\ [][RemovedStayRemoved]_vars
    /\ [][RemovedNotFoundOnActivePath]_vars

\* One comment was deleted with its reply; the other comment and the reply
\* under it are still there.
C29_Witness ==
    /\ last.op = "delete_comment"
    /\ last.code = HTTP_204_NO_CONTENT
    /\ Cardinality(Gone(comments, "comment")) = 1
    /\ Cardinality(Gone(replies, "reply")) = 1
    /\ \E r \in DOMAIN replies : replies[r].comment_id \in DOMAIN comments

\* C29 as stated: after the deletion every later get of the comment or of
\* its replies is NotFound.
C29_LaterGetAlwaysNotFound ==
    /\ [][DeleteCommentEffect]_vars
    /\ [][RemovedStayRemoved]_vars
    /\ [][RemovedNotFound]_vars

\* A successful delete_reply keeps every reply row and changes nothing but
\* the one reply, which leaves the ACTIVE replies.
DeleteReplyKeepsRows ==
    \A p \in PostIds, c \in CommentIds, r \in ThreadReplyIds :
        (/\ last'.op = "delete_reply"
         /\ last'.code = HTTP_204_NO_CONTENT
         /\ last'.post = p
         /\ delete_reply("u1", p, c, r))
        => /\ DOMAIN replies' = DOMAIN replies
           /\ replies'[r].status = ARCHIVED
           /\ \A o \in (DOMAIN replies) \ {r} : replies'[o] = replies[o]
           /\ UNCHANGED <<posts, comments>>
\* The deleted reply differs from what it was in status only.
DeleteReplySetsStatusOnly ==
    \A r \in DOMAIN replies :
        (last'.op = "delete_reply" /\ last'.code = HTTP_204_NO_CONTENT
            /\ replies'[r] # replies[r])
        => replies'[r] = [replies[r] EXCEPT !.status = ARCHIVED]
\* The deleted reply differs from what it was in status and updated_at only.
DeleteReplySetsStatusAndStamp ==
    \A r \in DOMAIN replies :
        (last'.op = "delete_reply" /\ last'.code = HTTP_204_NO_CONTENT
            /\ replies'[r] # replies[r])
        => replies'[r] = [replies[r] EXCEPT !.status = ARCHIVED, !.updated_at = "updated"]
\* The reply listing shows the ACTIVE replies to the comment and no other.
ListingShowsActiveOnly ==
    (last.op = "list_replies" /\ last.code = HTTP_200_OK)
        => last.result = {r \in DOMAIN replies : /\ replies[r].comment_id = last.item
                                                  /\ replies[r].status = ACTIVE}
\* Reply rows are removed by delete_comment and delete_post only.
OnlyDeletesAboveRemove ==
    (\E r \in DOMAIN replies : r \notin DOMAIN replies')
        => last'.op \in {"delete_comment", "delete_post"}

\* C30: delete(reply) by its author keeps the row and changes nothing of it
\* but status, which becomes ARCHIVED, and updated_at, which is stamped; the
\* reply is then not in the reply listing; only delete(comment) and
\* delete(post) ever remove a Reply row.
C30_ReplyDeleteIsSoft ==
    /\ [][DeleteReplyKeepsRows]_vars
    /\ [][DeleteReplySetsStatusAndStamp]_vars
    /\ []ListingShowsActiveOnly
    /\ [][OnlyDeletesAboveRemove]_vars

\* One of two replies was deleted: both rows are there, one ARCHIVED and
\* stamped, the other ACTIVE.
C30_Witness ==
    /\ last.op = "delete_reply"
    /\ last.code = HTTP_204_NO_CONTENT
    /\ \E r, o \in DOMAIN replies :
         /\ replies[r].status = ARCHIVED /\ replies[r].updated_at = "updated"
         /\ replies[o].status = ACTIVE

\* C30 as stated: every field of the deleted reply but status is unchanged.
C30_OnlyStatusChanges ==
    /\ [][DeleteReplyKeepsRows]_vars
    /\ [][DeleteReplySetsStatusOnly]_vars
    /\ []ListingShowsActiveOnly
    /\ [][OnlyDeletesAboveRemove]_vars

\* The path <<p, c, r>> is the reply's own, under an ACTIVE post and an ACTIVE
\* comment.
OpenPath(p, c, r) ==
    /\ r \in DOMAIN replies
    /\ replies[r].comment_id = c
    /\ c \in DOMAIN comments
    /\ comments[c].post_id = p
    /\ comments[c].status = ACTIVE
    /\ p \in DOMAIN posts
    /\ posts[p].status = ACTIVE

\* C31: activate(reply) by the author on a reply that is already ACTIVE, under
\* an ACTIVE post and an ACTIVE comment, is Forbidden.
C31_ActivateActiveReplyForbidden ==
    [][\A p \in PostIds, c \in CommentIds, r \in ThreadReplyIds :
        (/\ last'.op = "activate_reply"
         /\ last'.post = p
         /\ OpenPath(p, c, r)
         /\ replies[r].status = ACTIVE
         /\ replies[r].author_id = "u1"
         /\ activate_reply("u1", p, c, r))
        => last'.code = HTTP_403_FORBIDDEN]_vars

\* C32: archive(reply) and delete(reply) by the author on a reply that is
\* already ARCHIVED, under an ACTIVE post and an ACTIVE comment, are Forbidden
\* and change nothing.
C32_ArchivedReplyStaysArchived ==
    [][\A p \in PostIds, c \in CommentIds, r \in ThreadReplyIds :
        (/\ last'.op \in {"archive_reply", "delete_reply"}
         /\ last'.post = p
         /\ OpenPath(p, c, r)
         /\ replies[r].status = ARCHIVED
         /\ replies[r].author_id = "u1"
         /\ \/ archive_reply("u1", p, c, r)
            \/ delete_reply("u1", p, c, r))
        => last'.code = HTTP_403_FORBIDDEN /\ UNCHANGED db]_vars

\* A delete was refused although the post and the comment are ACTIVE and
\* every reply is the caller's, ARCHIVED, under that comment.
C32_Witness ==
    /\ last.op = "delete_reply"
    /\ last.code = HTTP_403_FORBIDDEN
    /\ last.post \in DOMAIN posts
    /\ posts[last.post].status = ACTIVE
    /\ \A r \in ThreadReplyIds :
         /\ r \in DOMAIN replies
         /\ OpenPath(last.post, replies[r].comment_id, r)
         /\ replies[r].status = ARCHIVED
         /\ replies[r].author_id = last.actor

\* Some reply request addressed through post p and comment c, and for the
\* requests about one reply through reply r of that comment, is the step.
ReplyRequest(p, c, r) ==
    \/ create_reply("u1", p, c, "c1")
    \/ list_replies(p, c)
    \/ /\ r \in DOMAIN replies
       /\ replies[r].comment_id = c
       /\ \/ get_reply(p, c, r)
          \/ update_reply("u1", p, c, r, "c2")
          \/ delete_reply("u1", p, c, r)
          \/ activate_reply("u1", p, c, r)
          \/ archive_reply("u1", p, c, r)

\* C33: a create, list, get, update, delete, activate or archive of a reply
\* succeeds only under an ACTIVE post and an ACTIVE comment; under a post or a
\* comment that is not ACTIVE it is Forbidden and no reply is added or changed.
C33_RepliesNeedActiveParents ==
    [][\A p \in PostIds, c \in CommentIds, r \in ThreadReplyIds :
        (/\ last'.post = p
         /\ p \in DOMAIN posts
         /\ c \in DOMAIN comments
         /\ comments[c].post_id = p
         /\ (posts[p].status # ACTIVE \/ comments[c].status # ACTIVE)
         /\ ReplyRequest(p, c, r))
        => last'.code = HTTP_403_FORBIDDEN /\ UNCHANGED db]_vars

\* A reply was refused under an ACTIVE post because the comment, which
\* already holds a reply, is ARCHIVED.
C33_Witness ==
    /\ last.op = "create_reply"
    /\ last.code = HTTP_403_FORBIDDEN
    /\ last.post \in DOMAIN posts
    /\ posts[last.post].status = ACTIVE
    /\ \A c \in CommentIds :
         /\ c \in DOMAIN comments
         /\ comments[c].post_id = last.post
         /\ comments[c].status = ARCHIVED
    /\ replies # <<>>

\* C34: a get of an ARCHIVED comment, of an ARCHIVED reply or of an ARCHIVED
\* tag, its parents ACTIVE, is NotFound, as the get of an id that does not
\* exist is.
C34_ArchivedLooksAbsent ==
    [][/\ \A p \in PostIds, c \in CommentIds :
            (/\ last'.op = "get_comment"
             /\ last'.post = p
             /\ p \in DOMAIN posts /\ posts[p].status = ACTIVE
             /\ c \in DOMAIN comments /\ comments[c].post_id = p
             /\ comments[c].status = ARCHIVED
             /\ get_comment(p, c))
            => last'.code = HTTP_404_NOT_FOUND
       /\ \A p \in PostIds, c \in CommentIds, r \in ReplyIds :
            (/\ last'.op = "get_reply"
             /\ last'.post = p
             /\ OpenPath(p, c, r)
             /\ replies[r].status = ARCHIVED
             /\ get_reply(p, c, r))
            => last'.code = HTTP_404_NOT_FOUND
       /\ \A t \in TagIds :
            (/\ last'.op = "get_tag"
             /\ t \in DOMAIN tags /\ tags[t].status = ARCHIVED
             /\ get_tag(t))
            => last'.code = HTTP_404_NOT_FOUND]_vars

\* C35: list never returns another user's DRAFT or MODIFYING post; without
\* filters it returns exactly the viewer's posts of every status and the
\* other users' ACTIVE and ARCHIVED posts; with filter_author the viewer it
\* returns the viewer's posts, of every status or of the status asked for.
C35_ListHidesOthersDrafts ==
    [][\A v \in Users, st \in {None} \cup PostStatus, a \in {None} \cup Users :
        (last'.op = "list_posts" /\ last'.actor = v /\ list_posts(v, st, a))
        => /\ \A p \in last'.result :
                posts[p].author_id # v => posts[p].status \notin {DRAFT, MODIFYING}
           /\ (st = None /\ a = None) =>
                last'.result = {p \in DOMAIN posts :
                                    \/ posts[p].author_id = v
                                    \/ posts[p].status \in {ACTIVE, ARCHIVED}}
           /\ a = v =>
                last'.result = {p \in DOMAIN posts :
                                    /\ posts[p].author_id = v
                                    /\ (st = None \/ posts[p].status = st)}]_vars

\* A user listed while they own a DRAFT post and the other user owns a
\* MODIFYING one: only their own came back.
C35_Witness ==
    /\ last.op = "list_posts"
    /\ \E p, q \in DOMAIN posts :
         /\ posts[p].author_id = last.actor /\ posts[p].status = DRAFT
         /\ posts[q].author_id # last.actor /\ posts[q].status = MODIFYING
         /\ last.result = {p}

\* C40: with a filter_status S, every post list returns has status S, for
\* every viewer and every filter_author.
C40_StatusFilterAlwaysApplies ==
    [][\A v \in Users, st \in PostStatus, a \in {None} \cup Users :
        (last'.op = "list_posts" /\ last'.actor = v /\ list_posts(v, st, a))
        => \A p \in last'.result : posts[p].status = st]_vars

\* C36: no post ever stores a negative comments_count.
C36_CommentsCountNeverNegative ==
    \A p \in DOMAIN posts : posts[p].comments_count >= 0

\* C37: once the requests of two different users on one target have both
\* completed, each leaving its Reaction row, the target's likes_count and
\* dislikes_count are the numbers of LIKE and DISLIKE rows on it.
C37_NoLostCounterUpdate ==
    \A p \in DOMAIN posts :
        (/\ requests = <<>>
         /\ \A u \in Users :
              Cardinality(ExistingReactions(reactions, u, POST, p)) = 1)
        => /\ posts[p].likes_count = CountReactions(reactions, POST, p, LIKE)
           /\ posts[p].dislikes_count = CountReactions(reactions, POST, p, DISLIKE)

\* C38: after every request every Comment's post_id names an existing Post,
\* every Reply's comment_id an existing Comment, and every PostTag link an
\* existing Post and an existing Tag.
C38_ReferencesResolve ==
    /\ \A c \in DOMAIN comments : comments[c].post_id \in DOMAIN posts
    /\ \A r \in DOMAIN replies : replies[r].comment_id \in DOMAIN comments
    /\ \A l \in post_tags : l.post_id \in DOMAIN posts /\ l.tag_id \in DOMAIN tags

\* A tag has been deleted while an ACTIVE post with a comment and a reply is
\* there.
C38_Witness ==
    /\ last.op = "delete_tag"
    /\ last.code = HTTP_204_NO_CONTENT
    /\ Gone(tags, "tag") # {}
    /\ posts # <<>> /\ comments # <<>> /\ replies # <<>>
    /\ \A p \in DOMAIN posts : posts[p].status = ACTIVE

\* C39: list_post_tags on a post that is not DRAFT succeeds for every
\* viewer, the anonymous one and the post's author included, and returns
\* the ACTIVE tags linked to the post.
C39_PostTagsOfAnyOpenPost ==
    \A p \in DOMAIN posts :
        (/\ last.op = "list_post_tags"
         /\ last.post = p
         /\ posts[p].status # DRAFT)
        => /\ last.code = HTTP_200_OK
           /\ last.result = {t \in DOMAIN tags :
                                /\ tags[t].status = ACTIVE
                                /\ \E l \in post_tags :
                                      l.post_id = p /\ l.tag_id = t}

====
